---- MODULE Spec2Model ----
(***************************************************************************)
(* Model of cache::dump::DumpManager (core/src/cache/dump/dump_manager.cpp) *)
(* over an explicit dump directory: file names are sequences of            *)
(* characters, matched and parsed as the code matches and parses them.     *)
(***************************************************************************)
EXTENDS Integers, Sequences, FiniteSets, TLC

(***************************************************************************)
(* Characters and decimal numbers                                          *)
(***************************************************************************)

DigitChars == <<"0", "1", "2", "3", "4", "5", "6", "7", "8", "9">>

IsDigit(c) == \E i \in 1..10 : DigitChars[i] = c

DigitVal(c) == (CHOOSE i \in 1..10 : DigitChars[i] = c) - 1

RECURSIVE DecVal(_)
\* value of a sequence of decimal digits
DecVal(s) ==
  IF s = <<>> THEN 0
  ELSE 10 * DecVal(SubSeq(s, 1, Len(s) - 1)) + DigitVal(s[Len(s)])

RECURSIVE Dec(_)
\* decimal digits of a natural number, without padding (fmt "{}")
Dec(n) ==
  IF n < 10 THEN <<DigitChars[n + 1]>>
  ELSE Dec(n \div 10) \o <<DigitChars[(n % 10) + 1]>>

RECURSIVE DecPad(_, _)
\* decimal digits of n, zero-padded to at least w digits
DecPad(n, w) ==
  IF Len(Dec(n)) >= w THEN Dec(n) ELSE <<"0">> \o DecPad(n, w - 1)

RECURSIVE StripZeros(_)
StripZeros(s) ==
  IF Len(s) > 1 /\ s[1] = "0" THEN StripZeros(Tail(s)) ELSE s

\* std::numeric_limits<uint64_t>::max() as decimal digits
UInt64MaxDigits ==
  <<"1","8","4","4","6","7","4","4","0","7","3","7","0","9","5","5","1","6","1","5">>

RECURSIVE DigitsLeq(_, _)
\* a <= b for two digit sequences of the same length
DigitsLeq(a, b) ==
  IF a = <<>> THEN TRUE
  ELSE IF a[1] # b[1] THEN DigitVal(a[1]) < DigitVal(b[1])
  ELSE DigitsLeq(Tail(a), Tail(b))

\* utils::FromString<uint64_t>: the value, or a failure when it does not fit
FromString(s) ==
  LET d == StripZeros(s) IN
  IF Len(d) > Len(UInt64MaxDigits)
       \/ (Len(d) = Len(UInt64MaxDigits) /\ ~DigitsLeq(d, UInt64MaxDigits))
  THEN [ok |-> FALSE, value |-> 0]
  ELSE [ok |-> TRUE, value |-> DecVal(d)]

(***************************************************************************)
(* Time points.  TimePoint (dump_manager.hpp) counts microseconds; a model  *)
(* time point is the record [day, sec, us]: days since 1970-01-01, second   *)
(* of the day, microsecond of the second.  A clock reading has a further    *)
(* field ns, the nanoseconds below the microsecond.                        *)
(***************************************************************************)

TimeLess(a, b) ==
  \/ a.day < b.day
  \/ a.day = b.day /\ a.sec < b.sec
  \/ a.day = b.day /\ a.sec = b.sec /\ a.us < b.us

TimeLeq(a, b) == a = b \/ TimeLess(a, b)

\* TimePoint::min(): below every time point a file name can spell
TimePointMin == [day |-> -106751992, sec |-> 0, us |-> 0]

\* t + us microseconds, 0 <= us < 10^6
PlusMicros(t, us) ==
  LET u == t.us + us
      s == t.sec + (u \div 1000000)
  IN  [day |-> t.day + (s \div 86400), sec |-> s % 86400, us |-> u % 1000000]

\* t - ms milliseconds (std::chrono::milliseconds subtracted from a TimePoint)
MinusMillis(t, ms) ==
  LET u == t.us - (ms % 1000) * 1000
      s == t.sec - (ms \div 1000) + (u \div 1000000)
  IN  [day |-> t.day + (s \div 86400), sec |-> s % 86400, us |-> u % 1000000]

\* std::chrono::round to microseconds: to nearest, ties to even
Round(time) ==
  LET t == [day |-> time.day, sec |-> time.sec, us |-> time.us] IN
  IF time.ns < 500 THEN t
  ELSE IF time.ns > 500 THEN PlusMicros(t, 1)
  ELSE IF time.us % 2 = 0 THEN t ELSE PlusMicros(t, 1)

(***************************************************************************)
(* Civil calendar (UTC, proleptic Gregorian)                               *)
(***************************************************************************)

IsLeap(y) == (y % 4 = 0 /\ y % 100 # 0) \/ y % 400 = 0

DaysInMonth(y, m) ==
  IF m = 2 THEN (IF IsLeap(y) THEN 29 ELSE 28)
  ELSE IF m \in {4, 6, 9, 11} THEN 30 ELSE 31

DaysFromCivil(year, m, d) ==
  LET y   == IF m <= 2 THEN year - 1 ELSE year
      era == y \div 400
      yoe == y - era * 400
      doy == ((153 * (IF m > 2 THEN m - 3 ELSE m + 9) + 2) \div 5) + d - 1
      doe == yoe * 365 + (yoe \div 4) - (yoe \div 100) + doy
  IN  era * 146097 + doe - 719468

CivilFromDays(days) ==
  LET FromM(era, yoe, d, m) ==
        [year |-> yoe + era * 400 + (IF m <= 2 THEN 1 ELSE 0), month |-> m, day |-> d]
      FromMp(era, yoe, doy, mp) ==
        FromM(era, yoe, doy - ((153 * mp + 2) \div 5) + 1,
              IF mp < 10 THEN mp + 3 ELSE mp - 9)
      FromDoy(era, yoe, doy) == FromMp(era, yoe, doy, (5 * doy + 2) \div 153)
      FromYoe(era, doe, yoe) ==
        FromDoy(era, yoe, doe - (365 * yoe + (yoe \div 4) - (yoe \div 100)))
      FromDoe(era, doe) ==
        FromYoe(era, doe,
                (doe - (doe \div 1460) + (doe \div 36524) - (doe \div 146096)) \div 365)
      FromEra(z, era) == FromDoe(era, z - era * 146097)
      FromZ(z) == FromEra(z, z \div 146097)
  IN  FromZ(days + 719468)

(***************************************************************************)
(* Time stamps in file names: kFilenameDateFormat "%Y-%m-%dT%H:%M:%E6S",    *)
(* time zone kTimeZone = "UTC"                                             *)
(***************************************************************************)

\* utils::datetime::Timestring(update_time, kTimeZone, kFilenameDateFormat)
Timestring(t) ==
  LET Format(c) ==
        DecPad(c.year, 4) \o <<"-">> \o DecPad(c.month, 2) \o <<"-">> \o DecPad(c.day, 2)
          \o <<"T">> \o DecPad(t.sec \div 3600, 2) \o <<":">>
          \o DecPad((t.sec \div 60) % 60, 2) \o <<":">> \o DecPad(t.sec % 60, 2)
          \o <<".">> \o DecPad(t.us, 6)
  IN  Format(CivilFromDays(t.day))

\* utils::datetime::Stringtime(s, kTimeZone, kFilenameDateFormat) for a string
\* of the shape the filename regex captures; ok = FALSE where it throws.
\* A second field of 60 is read as a leap second: the following second,
\* without its fraction.
Stringtime(s) ==
  LET year  == DecVal(SubSeq(s, 1, 4))
      month == DecVal(SubSeq(s, 6, 7))
      day   == DecVal(SubSeq(s, 9, 10))
      hour  == DecVal(SubSeq(s, 12, 13))
      min   == DecVal(SubSeq(s, 15, 16))
      sec   == DecVal(SubSeq(s, 18, 19))
      us    == DecVal(SubSeq(s, 21, 26))
      valid == /\ month \in 1..12
               /\ day >= 1
               /\ day <= DaysInMonth(year, month)
               /\ hour <= 23
               /\ min <= 59
               /\ sec <= 60
      days  == DaysFromCivil(year, month, day)
      sod   == hour * 3600 + min * 60 + sec
  IN  IF ~valid THEN [ok |-> FALSE]
      ELSE IF sec = 60
        THEN [ok |-> TRUE, time |-> [day |-> days + (sod \div 86400),
                                     sec |-> sod % 86400, us |-> 0, ns |-> 0]]
        ELSE [ok |-> TRUE, time |-> [day |-> days, sec |-> sod, us |-> us, ns |-> 0]]

(***************************************************************************)
(* File name patterns.  A pattern is a sequence of tokens: "\\d" one digit, *)
(* "\\d+" one or more digits, any other token that character itself.       *)
(***************************************************************************)

kNormal == "kNormal"
kTmp == "kTmp"

TimestampPattern ==
  <<"\\d", "\\d", "\\d", "\\d", "-", "\\d", "\\d", "-", "\\d", "\\d", "T",
    "\\d", "\\d", ":", "\\d", "\\d", ":", "\\d", "\\d", ".",
    "\\d", "\\d", "\\d", "\\d", "\\d", "\\d">>

\* ^(\d{4}-\d{2}-\d{2}T\d{2}:\d{2}:\d{2}\.\d{6})-v(\d+)$, with \.tmp before
\* the $ for kTmp
GenerateFilenameRegex(type) ==
  TimestampPattern \o <<"-", "v", "\\d+">>
    \o (IF type = kTmp THEN <<".", "t", "m", "p">> ELSE <<>>)

RECURSIVE MatchFrom(_, _, _, _)
\* does s from position i on match pattern pat from token j on, to the end?
MatchFrom(s, i, pat, j) ==
  IF j > Len(pat) THEN i > Len(s)
  ELSE IF i > Len(s) THEN FALSE
  ELSE IF pat[j] = "\\d" THEN IsDigit(s[i]) /\ MatchFrom(s, i + 1, pat, j + 1)
  ELSE IF pat[j] = "\\d+"
    THEN IsDigit(s[i]) /\ (MatchFrom(s, i + 1, pat, j) \/ MatchFrom(s, i + 1, pat, j + 1))
  ELSE s[i] = pat[j] /\ MatchFrom(s, i + 1, pat, j + 1)

\* boost::regex_match(filename, pattern)
RegexMatch(filename, pat) == MatchFrom(filename, 1, pat, 1)

\* the two sub-matches of a name that matches GenerateFilenameRegex(type)
SubMatch1(filename) == SubSeq(filename, 1, Len(TimestampPattern))

SubMatch2(filename, type) ==
  SubSeq(filename, Len(TimestampPattern) + 3,
         Len(filename) - (IF type = kTmp THEN 4 ELSE 0))

(***************************************************************************)
(* Paths                                                                   *)
(***************************************************************************)

RECURSIVE LastSlash(_)
\* position of the last "/" of a path, 0 when it has none
LastSlash(path) ==
  IF path = <<>> THEN 0
  ELSE IF path[Len(path)] = "/" THEN Len(path)
  ELSE LastSlash(SubSeq(path, 1, Len(path) - 1))

\* boost::filesystem::path{p}.filename()
Filename(path) == SubSeq(path, LastSlash(path) + 1, Len(path))

\* fmt::format("{}/{}-v{}", dump_directory, Timestring(update_time), version)
GenerateDumpPath(update_time, config) ==
  config.dump_directory \o <<"/">> \o Timestring(update_time)
    \o <<"-", "v">> \o Dec(config.dump_format_version)

\* std::nullopt
Nullopt == [has_value |-> FALSE]

\* std::optional<DumpFileStats> holding a value
DumpFileStats(update_time, full_path, format_version) ==
  [has_value |-> TRUE, update_time |-> update_time, full_path |-> full_path,
   format_version |-> format_version]

\* an exception that leaves a call, with the step that threw it
Exception(what) == [has_value |-> FALSE, what |-> what]

\* the call ended by throwing
Threw(result) == "what" \in DOMAIN result

\* ParseDumpName, computed from the characters of the path
ParseDumpNameOf(full_path) ==
  LET Stats(date, version) ==
        IF date.ok /\ version.ok
        THEN DumpFileStats(Round(date.time), full_path, version.value)
        ELSE Nullopt
      Parse(filename) ==
        IF RegexMatch(filename, GenerateFilenameRegex(kNormal))
        THEN Stats(Stringtime(SubMatch1(filename)),
                   FromString(SubMatch2(filename, kNormal)))
        ELSE Nullopt
  IN  Parse(Filename(full_path))

\* Round(utils::datetime::Now()) - *config.max_dump_age, or TimePoint::min().
\* max_dump_age is an optional count of milliseconds.
MinAcceptableUpdateTime(config, clock) ==
  IF config.max_dump_age.has_value
  THEN MinusMillis(Round(clock), config.max_dump_age.value)
  ELSE TimePointMin

(***************************************************************************)
(* The file names the model starts from                                    *)
(***************************************************************************)

\* BaseTime() of dump_manager_test.cpp: 2015-03-22T09:00:00.000000 UTC
BaseTime == [day |-> DaysFromCivil(2015, 3, 22), sec |-> 9 * 3600, us |-> 0]

PlusSeconds(t, n) == [t EXCEPT !.sec = @ + n]

DumpDirectory == <<"d">>

\* the path in the dump directory of the file called name
InDir(name) == DumpDirectory \o <<"/">> \o name

\* the file name of a dump of the given time and version, as ASCII digits
DumpName(t, version_digits) == Timestring(t) \o <<"-", "v">> \o version_digits

Tmp(name) == name \o <<".", "t", "m", "p">>

\* InitialFileNames() of the test, and two more spellings: a version with a
\* leading zero, and a time stamp no calendar has
InitialFileNames ==
  { DumpName(BaseTime, <<"5">>),
    DumpName(PlusSeconds(BaseTime, 3), <<"0">>),
    DumpName(PlusSeconds(BaseTime, 1), <<"4", "2">>),
    DumpName(PlusSeconds(BaseTime, 1), <<"5">>),
    DumpName(PlusSeconds(BaseTime, 3), <<"5">>),
    DumpName(PlusSeconds(BaseTime, 3), <<"0", "5">>),
    <<"2","0","1","5","-","1","3","-","4","5","T","0","9",":","0","0",":","0","0",
      ".","0","0","0","0","0","0","-","v","0">> }

\* JunkFileNames() of the test
JunkFileNames ==
  { Tmp(DumpName([day |-> DaysFromCivil(2000, 1, 1), sec |-> 0, us |-> 0], <<"4", "2">>)) }

\* UnrelatedFileNames() of the test
UnrelatedFileNames ==
  { <<"f", "o", "o", ".", "t", "m", "p">>,
    Timestring(BaseTime) \o <<"-", "v", "-", "5">> }

\* names that may also be those of subdirectories of the dump directory
SubdirNames ==
  JunkFileNames \cup { DumpName(PlusSeconds(BaseTime, 3), <<"5">>) }

FilePaths == {InDir(n) : n \in InitialFileNames \cup JunkFileNames \cup UnrelatedFileNames}

SubdirPaths == {InDir(n) : n \in SubdirNames}

\* the update times the callers pass: BaseTime() and BaseTime() + 3s of
\* DumpAndBumpTest
UpdateTimes == {BaseTime, PlusSeconds(BaseTime, 3)}

\* the format versions of the configs: that of the tests and the next one
FormatVersions == {5, 6}

\* the paths GenerateDumpPath gives the callers
WriterPaths ==
  {InDir(DumpName(t, Dec(v))) : t \in UpdateTimes, v \in FormatVersions}

\* What ParseDumpName and tmp_filename_regex_ make of each path of the
\* model, evaluated once
PathFacts(p) ==
  [path |-> p, dump |-> ParseDumpNameOf(p),
   normal |-> RegexMatch(Filename(p), GenerateFilenameRegex(kNormal)),
   tmp |-> RegexMatch(Filename(p), GenerateFilenameRegex(kTmp))]

KnownPaths == {PathFacts(p) : p \in FilePaths \cup WriterPaths}

\* the facts of a path: looked up, or computed for a path not known
Known(path) ==
  LET Lookup(hit) == IF hit = {} THEN PathFacts(path) ELSE CHOOSE k \in hit : TRUE
  IN  Lookup({k \in KnownPaths : k.path = path})

\* std::optional<DumpFileStats> DumpManager::ParseDumpName(std::string)
ParseDumpName(full_path) == Known(full_path).dump

\* boost::regex_match(filename, tmp_filename_regex_) for the file at path
MatchesTmp(path) == Known(path).tmp

\* boost::regex_match(filename, filename_regex_) for the file at path
MatchesNormal(path) == Known(path).normal

(***************************************************************************)
(* State                                                                   *)
(***************************************************************************)

VARIABLES
  exists,   \* whether the dump directory exists
  files,    \* the entries of the dump directory: path -> [type, contents]
  config,   \* the value of config_ (rcu::Variable<Config>)
  clock,    \* utils::datetime::Now()
  last,     \* the last operation: what it read, what it returned
  issued,   \* the DumpFileStats that RegisterNewDump has returned, in order
  inflight, \* the operation of a second caller that is under way, if any
  controller \* the cache controller: its state, the on_update calls in flight

vars == <<exists, files, config, clock, last, issued, inflight, controller>>

\* no operation is under way
Idle == [op |-> "none"]

\* the cache controller before it is started
Cold == [state |-> "Cold", on_update |-> 0, updated |-> FALSE]

\* f restricted to the names in S
Restrict(f, S) == [n \in S |-> f[n]]

RECURSIVE Arrangements(_)
\* the sequences without repetition over S: the orders in which a directory
\* iterator may yield entries, cut at any point
Arrangements(S) ==
  {<<>>} \cup UNION {{<<x>> \o t : t \in Arrangements(S \ {x})} : x \in S}

(***************************************************************************)
(* DumpManager::GetLatestDump                                              *)
(***************************************************************************)

\* LatestCandidate taking every version from the current one on
LatestCandidateFromVersion(path, entry, cfg, min_update_time) ==
  LET Check(curr_dump) ==
        IF ~curr_dump.has_value THEN Nullopt
        ELSE IF curr_dump.format_version < cfg.dump_format_version THEN Nullopt
        ELSE IF TimeLess(curr_dump.update_time, min_update_time)
                  /\ cfg.max_dump_age.has_value THEN Nullopt
        ELSE curr_dump
  IN  IF entry.type # "regular" THEN Nullopt ELSE Check(ParseDumpName(path))

\* LatestCandidate without the check of the age
LatestCandidateAnyAge(path, entry, cfg, min_update_time) ==
  LET Check(curr_dump) ==
        IF ~curr_dump.has_value THEN Nullopt
        ELSE IF curr_dump.format_version # cfg.dump_format_version THEN Nullopt
        ELSE curr_dump
  IN  IF entry.type # "regular" THEN Nullopt ELSE Check(ParseDumpName(path))

\* One pass of the loop body of GetLatestDump(const Config&) up to the
\* comparison with best_dump: curr_dump when it is a candidate, else nullopt
LatestCandidate(path, entry, cfg, min_update_time) ==
  LET Check(curr_dump) ==
        IF ~curr_dump.has_value THEN Nullopt
        ELSE IF curr_dump.format_version # cfg.dump_format_version THEN Nullopt
        ELSE IF TimeLess(curr_dump.update_time, min_update_time)
                  /\ cfg.max_dump_age.has_value THEN Nullopt
        ELSE curr_dump
  IN  IF entry.type # "regular" THEN Nullopt ELSE Check(ParseDumpName(path))

RECURSIVE BestDumpOldest(_, _)
\* BestDump with the comparison of the update times turned around
BestDumpOldest(visited, best_dump) ==
  IF visited = <<>> THEN best_dump
  ELSE LET curr_dump == Head(visited).curr_dump IN
       BestDumpOldest(Tail(visited),
                IF curr_dump.has_value
                     /\ (~best_dump.has_value
                           \/ TimeLess(curr_dump.update_time, best_dump.update_time))
                THEN curr_dump ELSE best_dump)

RECURSIVE BestDump(_, _)
\* best_dump after the entries of visited, in that order, given best_dump
\* before them; an entry is [path, curr_dump], curr_dump its LatestCandidate
BestDump(visited, best_dump) ==
  IF visited = <<>> THEN best_dump
  ELSE LET curr_dump == Head(visited).curr_dump IN
       BestDump(Tail(visited),
                IF curr_dump.has_value
                     /\ (~best_dump.has_value
                           \/ TimeLess(best_dump.update_time, curr_dump.update_time))
                THEN curr_dump ELSE best_dump)

\* GetLatestDump(const Config&): the possible outcomes [result, error]; error
\* tells that a filesystem error ended the scan (it is logged and swallowed)
GetLatestDumpConfig(cfg, now, dir_exists, dir) ==
  LET min_update_time == MinAcceptableUpdateTime(cfg, now)
      \* the outcomes of the loop over entries, wherever an error ends it
      Loop(entries) ==
        {[result |-> BestDump(visited, Nullopt),
          error  |-> Len(visited) < Cardinality(entries)] :
           visited \in Arrangements(entries)}
  IN  IF ~dir_exists THEN {[result |-> Nullopt, error |-> FALSE]}
      ELSE Loop({[path |-> p,
                  curr_dump |-> LatestCandidate(p, dir[p], cfg, min_update_time)] :
                   p \in DOMAIN dir})
           \cup {[result |-> Nullopt, error |-> TRUE]}

(***************************************************************************)
(* DumpManager::DoCleanup                                                  *)
(***************************************************************************)

\* Expired without the version rule
ExpiredByAge(dump, cfg, min_update_time) ==
  TimeLess(dump.update_time, min_update_time)

\* Expired with update_time <= min_update_time
ExpiredAtMinUpdateTime(dump, cfg, min_update_time) ==
  \/ dump.format_version < cfg.dump_format_version
  \/ TimeLeq(dump.update_time, min_update_time)

\* Expired with format_version != dump_format_version
ExpiredOtherVersion(dump, cfg, min_update_time) ==
  \/ dump.format_version # cfg.dump_format_version
  \/ TimeLess(dump.update_time, min_update_time)

\* dump->format_version < config.dump_format_version ||
\* dump->update_time < min_update_time
Expired(dump, cfg, min_update_time) ==
  \/ dump.format_version < cfg.dump_format_version
  \/ TimeLess(dump.update_time, min_update_time)

\* CleanupEntry that parses the name before it looks for a tmp file
CleanupEntryParseFirst(path, entry, cfg, min_update_time) ==
  LET Parsed(dump) ==
        IF ~dump.has_value THEN [do |-> "continue"]
        ELSE IF MatchesTmp(path) THEN [do |-> "remove"]
        ELSE IF Expired(dump, cfg, min_update_time) THEN [do |-> "remove"]
        ELSE IF dump.format_version = cfg.dump_format_version
          THEN [do |-> "push_back", dump |-> dump]
        ELSE [do |-> "continue"]
  IN  IF entry.type # "regular" THEN [do |-> "continue"]
      ELSE Parsed(ParseDumpName(path))

\* CleanupEntry that removes the files whose names do not parse
CleanupEntryRemoveUnrelated(path, entry, cfg, min_update_time) ==
  LET Parsed(dump) ==
        IF ~dump.has_value THEN [do |-> "remove"]
        ELSE IF Expired(dump, cfg, min_update_time) THEN [do |-> "remove"]
        ELSE IF dump.format_version = cfg.dump_format_version
          THEN [do |-> "push_back", dump |-> dump]
        ELSE [do |-> "continue"]
  IN  IF entry.type # "regular" THEN [do |-> "continue"]
      ELSE IF MatchesTmp(path) THEN [do |-> "remove"]
      ELSE Parsed(ParseDumpName(path))

\* What one pass of the loop body of DoCleanup does with an entry:
\* "remove" it, "push_back" its dump to the vector dumps, or "continue"
CleanupEntry(path, entry, cfg, min_update_time) ==
  LET Parsed(dump) ==
        IF ~dump.has_value THEN [do |-> "continue"]
        ELSE IF Expired(dump, cfg, min_update_time) THEN [do |-> "remove"]
        ELSE IF dump.format_version = cfg.dump_format_version
          THEN [do |-> "push_back", dump |-> dump]
        ELSE [do |-> "continue"]
  IN  IF entry.type # "regular" THEN [do |-> "continue"]
      ELSE IF MatchesTmp(path) THEN [do |-> "remove"]
      ELSE Parsed(ParseDumpName(path))

RECURSIVE CleanupScan(_, _)
\* the loop over the directory: acc = [removed: the paths removed so far,
\* dumps: the vector dumps]; an entry is [path, step], step its CleanupEntry
CleanupScan(visited, acc) ==
  IF visited = <<>> THEN acc
  ELSE LET e == Head(visited) IN
       CleanupScan(Tail(visited),
                   IF e.step.do = "remove"
                     THEN [acc EXCEPT !.removed = @ \cup {e.path}]
                   ELSE IF e.step.do = "push_back"
                     THEN [acc EXCEPT !.dumps = Append(@, e.step.dump)]
                   ELSE acc)

\* SortDumps under a.update_time < b.update_time
SortDumpsAscending(dumps) ==
  {s \in Arrangements({dumps[i] : i \in DOMAIN dumps}) :
     /\ Len(s) = Len(dumps)
     /\ \A i \in 1..(Len(s) - 1) : ~TimeLess(s[i + 1].update_time, s[i].update_time)}

\* the results std::sort may give for dumps under a.update_time > b.update_time
SortDumps(dumps) ==
  {s \in Arrangements({dumps[i] : i \in DOMAIN dumps}) :
     /\ Len(s) = Len(dumps)
     /\ \A i \in 1..(Len(s) - 1) : ~TimeLess(s[i].update_time, s[i + 1].update_time)}

\* the loop over the dumps started at index 0 instead of max_dump_count
ExcessiveDumpsFromNewest(sorted, cfg, stop) ==
  {sorted[i + 1].full_path :
     i \in {j \in 0..(Len(sorted) - 1) : j < stop - cfg.max_dump_count}}

\* the loop over the dumps left after its first turn
ExcessiveDumpsOneAtATime(sorted, cfg, stop) ==
  {sorted[i + 1].full_path :
     i \in {j \in cfg.max_dump_count..(Len(sorted) - 1) :
              j < stop /\ j = cfg.max_dump_count}}

\* paths removed by the loop over dumps[max_dump_count ..], stopped before
\* index stop (0-based, as in the code)
ExcessiveDumps(sorted, cfg, stop) ==
  {sorted[i + 1].full_path :
     i \in {j \in cfg.max_dump_count..(Len(sorted) - 1) : j < stop}}

\* DoCleanup(const Config&): the possible outcomes [files, error]; error tells
\* that a filesystem error ended the cleanup (it is logged and swallowed)
DoCleanup(cfg, now, dir_exists, dir) ==
  LET min_update_time == MinAcceptableUpdateTime(cfg, now)
      empty == [removed |-> {}, dumps |-> <<>>]
      Stops(sorted) == IF cfg.max_dump_count >= Len(sorted) THEN {Len(sorted)}
                       ELSE cfg.max_dump_count..Len(sorted)
      \* the scans of the directory, each cut where an error may end it
      Scans(entries) ==
        {[visited |-> v, acc |-> CleanupScan(v, empty)] : v \in Arrangements(entries)}
      \* a scan of the whole directory: whatever its order, it removes the
      \* same files and hands the same dumps to std::sort
      Whole(scans) ==
        (CHOOSE sc \in scans : \A o \in scans : Len(o.visited) <= Len(sc.visited)).acc
      Outcomes(scans, whole) ==
        \* an error during the scan
        {[files |-> Restrict(dir, DOMAIN dir \ sc.acc.removed), error |-> TRUE] :
           sc \in scans}
        \cup
        \* a whole scan, the sort, and the removal of the excessive dumps
        \* up to index stop, where an error ends it unless it is the end
        UNION {
          {[files |-> Restrict(dir, (DOMAIN dir \ whole.removed)
                                      \ ExcessiveDumps(sorted, cfg, stop)),
            error |-> stop < Len(sorted)] : stop \in Stops(sorted)}
          : sorted \in SortDumps(whole.dumps)}
      Loop(scans) == Outcomes(scans, Whole(scans))
  IN  IF ~dir_exists THEN {[files |-> dir, error |-> FALSE]}
      ELSE Loop(Scans({[path |-> p,
                        step |-> CleanupEntry(p, dir[p], cfg, min_update_time)] :
                         p \in DOMAIN dir}))

(***************************************************************************)
(* The directories, configs and clock readings the model starts from       *)
(***************************************************************************)

\* most entries a directory of the model starts with
MaxFiles == 3

\* CreateDumps of the test writes each file's name into it
Directories ==
  {[p \in sd[1] |-> [type |-> IF p \in sd[2] THEN "directory" ELSE "regular",
                      contents |-> Filename(p)]] :
     sd \in {x \in (SUBSET FilePaths) \X (SUBSET SubdirPaths) :
               x[2] \subseteq x[1] /\ Cardinality(x[1]) <= MaxFiles}}

Optional(v) == [has_value |-> TRUE, value |-> v]

Configs ==
  [dump_directory : {DumpDirectory},
   dump_format_version : {5},
   max_dump_age : {Nullopt, Optional(2000)},
   max_dump_count : {1, 2}]

\* MockNowSet(BaseTime()); MockSleep(3s), and a reading 600 ns later
Clocks ==
  { [day |-> BaseTime.day, sec |-> BaseTime.sec + 3, us |-> 0, ns |-> 0],
    [day |-> BaseTime.day, sec |-> BaseTime.sec + 3, us |-> 0, ns |-> 600] }

ClockLess(a, b) ==
  TimeLess(a, b) \/ (a.day = b.day /\ a.sec = b.sec /\ a.us = b.us /\ a.ns < b.ns)

Operation(op, cfg, error, result) ==
  [op |-> op, config |-> cfg, clock |-> clock, exists |-> exists, files |-> files,
   error |-> error, result |-> result]

Init ==
  /\ exists \in BOOLEAN
  /\ files \in IF exists THEN Directories ELSE {<<>>}
  /\ config \in Configs
  /\ clock \in Clocks
  /\ last = Operation("DumpManager", config, FALSE, Nullopt)
  /\ issued = <<>>
  /\ inflight = Idle
  /\ controller = Cold

(***************************************************************************)
(* Operations                                                              *)
(***************************************************************************)

\* GetLatestDump that removes the leftover tmp files it finds
GetLatestDumpRemovingTmp ==
  /\ \E out \in GetLatestDumpConfig(config, clock, exists, files) :
       last' = Operation("GetLatestDump", config, out.error, out.result)
  /\ files' = Restrict(files, {p \in DOMAIN files :
                                 ~(files[p].type = "regular" /\ MatchesTmp(p))})
  /\ UNCHANGED <<exists, config, clock, issued, inflight, controller>>

\* GetLatestDump that lets the error of the scan leave the call
GetLatestDumpRethrowing ==
  /\ \E out \in GetLatestDumpConfig(config, clock, exists, files) :
       last' = Operation("GetLatestDump", config, out.error,
                         IF out.error THEN Exception("directory_iterator")
                         ELSE out.result)
  /\ UNCHANGED <<exists, files, config, clock, issued, inflight, controller>>

\* std::optional<DumpFileStats> DumpManager::GetLatestDump() const
GetLatestDump ==
  /\ \E out \in GetLatestDumpConfig(config, clock, exists, files) :
       last' = Operation("GetLatestDump", config, out.error, out.result)
  /\ UNCHANGED <<exists, files, config, clock, issued, inflight, controller>>

\* void DumpManager::Cleanup()
Cleanup ==
  /\ \E out \in DoCleanup(config, clock, exists, files) :
       /\ files' = out.files
       /\ last' = Operation("Cleanup", config, out.error, Nullopt)
  /\ UNCHANGED <<exists, config, clock, issued, inflight, controller>>

\* void DumpManager::SetConfig(Config&& config)
SetConfig ==
  /\ \E c \in Configs \ {config} :
       /\ config' = c
       /\ last' = [Operation("SetConfig", c, FALSE, Nullopt) EXCEPT !.files = <<>>]
  /\ UNCHANGED <<exists, files, clock, issued, inflight, controller>>

\* utils::datetime::MockSleep: the clock moves on
MockSleep ==
  /\ \E c \in Clocks :
       /\ ClockLess(clock, c)
       /\ clock' = c
       /\ last' = [Operation("MockSleep", config, FALSE, Nullopt) EXCEPT
                     !.clock = c, !.files = <<>>]
  /\ UNCHANGED <<exists, files, config, issued, inflight, controller>>

Next == GetLatestDump \/ Cleanup \/ SetConfig \/ MockSleep

Spec == Init /\ [][Next]_vars

CleanupNext == Cleanup \/ GetLatestDump

\* Cleanup and GetLatestDump called one after the other, under one config
\* and one reading of the clock
CleanupSpec == Init /\ [][CleanupNext]_vars

(***************************************************************************)
(* DumpManager::RegisterNewDump and DumpManager::BumpDumpTime, and the      *)
(* caller that writes the dump it has registered                           *)
(***************************************************************************)

\* the last operation, for a call with arguments
Call(op, cfg, args, result) ==
  [op |-> op, config |-> cfg, clock |-> clock, exists |-> exists, files |-> files,
   error |-> FALSE, result |-> result, args |-> args]

\* RegisterNewDump that also creates the file it registers
RegisterNewDumpCreatingFile(update_time, cfg, dir_exists, dir) ==
  LET Register(dump_path) ==
        IF dir_exists /\ dump_path \in DOMAIN dir
        THEN {[result |-> Exception("exists"), exists |-> dir_exists, files |-> dir],
              [result |-> Exception("status"), exists |-> dir_exists, files |-> dir]}
        ELSE {[result |-> Exception("status"), exists |-> dir_exists, files |-> dir],
              [result |-> Exception("CreateDirectories"),
               exists |-> dir_exists, files |-> dir],
              [result |-> DumpFileStats(update_time, dump_path, cfg.dump_format_version),
               exists |-> TRUE,
               files  |-> [p \in DOMAIN dir \cup {dump_path} |->
                            IF p = dump_path
                            THEN [type |-> "regular", contents |-> <<>>]
                            ELSE dir[p]]]}
  IN  Register(GenerateDumpPath(update_time, cfg))

\* RegisterNewDump without the look for a file at dump_path
RegisterNewDumpUnchecked(update_time, cfg, dir_exists, dir) ==
  LET Register(dump_path) ==
        {[result |-> Exception("status"), exists |-> dir_exists, files |-> dir],
         [result |-> Exception("CreateDirectories"),
          exists |-> dir_exists, files |-> dir],
         [result |-> DumpFileStats(update_time, dump_path, cfg.dump_format_version),
          exists |-> TRUE, files |-> dir]}
  IN  Register(GenerateDumpPath(update_time, cfg))

\* DumpFileStats DumpManager::RegisterNewDump(TimePoint update_time) under the
\* config it has read: the possible outcomes [result, exists, files].
\* boost::filesystem::exists and CreateDirectories may fail with a filesystem
\* error; the first is thrown as it is, the second as std::runtime_error.
RegisterNewDumpOutcomes(update_time, cfg, dir_exists, dir) ==
  LET Register(dump_path) ==
        IF dir_exists /\ dump_path \in DOMAIN dir
        THEN {[result |-> Exception("exists"), exists |-> dir_exists, files |-> dir],
              [result |-> Exception("status"), exists |-> dir_exists, files |-> dir]}
        ELSE {[result |-> Exception("status"), exists |-> dir_exists, files |-> dir],
              [result |-> Exception("CreateDirectories"),
               exists |-> dir_exists, files |-> dir],
              [result |-> DumpFileStats(update_time, dump_path, cfg.dump_format_version),
               exists |-> TRUE, files |-> dir]}
  IN  Register(GenerateDumpPath(update_time, cfg))

\* boost::filesystem::rename(old_name, new_name) in a directory that holds
\* old_name: new_name is replaced when it is there
Rename(dir, old_name, new_name) ==
  [p \in (DOMAIN dir \ {old_name}) \cup {new_name} |->
     IF p = new_name THEN dir[old_name] ELSE dir[p]]

\* BumpDumpTime without the look for a regular file at old_name
BumpDumpTimeUnchecked(old_update_time, new_update_time, cfg, dir_exists, dir) ==
  LET Bump(old_name, new_name) ==
        IF ~(dir_exists /\ old_name \in DOMAIN dir)
        THEN {[result |-> FALSE, files |-> dir]}
        ELSE {[result |-> FALSE, files |-> dir]}
             \cup
             IF new_name \in DOMAIN dir /\ dir[new_name].type # dir[old_name].type
             THEN {}
             ELSE {[result |-> TRUE, files |-> Rename(dir, old_name, new_name)]}
  IN  Bump(GenerateDumpPath(old_update_time, cfg),
           GenerateDumpPath(new_update_time, cfg))

\* BumpDumpTime that copies the file to the new name and keeps the old one
BumpDumpTimeCopying(old_update_time, new_update_time, cfg, dir_exists, dir) ==
  LET Bump(old_name, new_name) ==
        IF ~(dir_exists /\ old_name \in DOMAIN dir /\ dir[old_name].type = "regular")
        THEN {[result |-> FALSE, files |-> dir]}
        ELSE {[result |-> FALSE, files |-> dir]}
             \cup
             IF new_name \in DOMAIN dir /\ dir[new_name].type = "directory"
             THEN {}
             ELSE {[result |-> TRUE,
                    files  |-> [p \in DOMAIN dir \cup {new_name} |->
                                 IF p = new_name THEN dir[old_name] ELSE dir[p]]]}
  IN  Bump(GenerateDumpPath(old_update_time, cfg),
           GenerateDumpPath(new_update_time, cfg))

\* bool DumpManager::BumpDumpTime(old_update_time, new_update_time) under the
\* config it has read: the possible outcomes [result, files].  The rename may
\* fail with a filesystem error, and does so onto a directory; the error is
\* caught and false returned.
BumpDumpTimeOutcomes(old_update_time, new_update_time, cfg, dir_exists, dir) ==
  LET Bump(old_name, new_name) ==
        IF ~(dir_exists /\ old_name \in DOMAIN dir /\ dir[old_name].type = "regular")
        THEN {[result |-> FALSE, files |-> dir]}
        ELSE {[result |-> FALSE, files |-> dir]}
             \cup
             IF new_name \in DOMAIN dir /\ dir[new_name].type = "directory"
             THEN {}
             ELSE {[result |-> TRUE, files |-> Rename(dir, old_name, new_name)]}
  IN  Bump(GenerateDumpPath(old_update_time, cfg),
           GenerateDumpPath(new_update_time, cfg))

\* What the boost::filesystem::directory_iterator of the scan under way
\* makes of a change of the directory: an entry that has gone or has been
\* replaced is no longer one the iterator is bound to yield, and the name of
\* a regular file that has gone may still come out of it.
DirectoryChanged(task, before, after) ==
  IF task.op = "none" \/ task.pc # "loop" THEN task
  ELSE LET Without(gone) ==
             [task EXCEPT
                !.whole = @ \ gone,
                !.stale = @ \cup {p \in gone \ task.yielded : before[p].type = "regular"}]
       IN  Without({p \in DOMAIN before : p \notin DOMAIN after \/ after[p] # before[p]})

\* most calls of RegisterNewDump that return a DumpFileStats
MaxRegistrations == 2

\* the configs a DumpManager is constructed with: those of Configs, for the
\* format version of the tests and the next one
ConstructorConfigs ==
  {[c EXCEPT !.dump_format_version = v] : c \in Configs, v \in FormatVersions}

\* the directories a DumpManager that is going to write dumps starts with:
\* at most one entry, a leftover tmp file, a dump or a subdirectory
WriterDirectories ==
  {d \in Directories : Cardinality(DOMAIN d) <= 1 /\ DOMAIN d \subseteq SubdirPaths}

WriterInit ==
  /\ exists \in BOOLEAN
  /\ files \in IF exists THEN WriterDirectories ELSE {<<>>}
  /\ config \in ConstructorConfigs
  /\ clock \in {c \in Clocks : c.ns = 0}
  /\ last = Operation("DumpManager", config, FALSE, Nullopt)
  /\ issued = <<>>
  /\ inflight = Idle
  /\ controller = Cold

\* DumpFileStats DumpManager::RegisterNewDump(TimePoint update_time)
RegisterNewDump ==
  /\ Len(issued) < MaxRegistrations
  /\ \E update_time \in UpdateTimes :
       \E out \in RegisterNewDumpOutcomes(update_time, config, exists, files) :
         /\ exists' = out.exists
         /\ files' = out.files
         /\ last' = Call("RegisterNewDump", config, <<update_time>>, out.result)
         /\ issued' = IF Threw(out.result) THEN issued ELSE Append(issued, out.result)
  /\ inflight' = DirectoryChanged(inflight, files, files')
  /\ UNCHANGED <<config, clock, controller>>

\* the caller writes a dump it has registered: as CreateDumps of the tests,
\* fs::blocking::RewriteFileContents(dump_stats.full_path, the name)
RewriteFileContents ==
  /\ exists
  /\ \E i \in DOMAIN issued :
       LET full_path == issued[i].full_path IN
       /\ ~(full_path \in DOMAIN files /\ files[full_path].type = "directory")
       /\ files' = [p \in DOMAIN files \cup {full_path} |->
                      IF p = full_path
                      THEN [type |-> "regular", contents |-> Filename(full_path)]
                      ELSE files[p]]
       /\ last' = Call("RewriteFileContents", config, <<full_path>>, Nullopt)
  /\ inflight' = DirectoryChanged(inflight, files, files')
  /\ UNCHANGED <<exists, config, clock, issued, controller>>

\* bool DumpManager::BumpDumpTime(TimePoint old_update_time,
\*                                TimePoint new_update_time),
\* called as UASSERT(old_update_time <= new_update_time) demands
BumpDumpTime ==
  /\ \E old_update_time \in UpdateTimes, new_update_time \in UpdateTimes :
       /\ TimeLeq(old_update_time, new_update_time)
       /\ \E out \in BumpDumpTimeOutcomes(old_update_time, new_update_time,
                                          config, exists, files) :
            /\ files' = out.files
            /\ last' = Call("BumpDumpTime", config,
                            <<old_update_time, new_update_time>>, out.result)
  /\ inflight' = DirectoryChanged(inflight, files, files')
  /\ UNCHANGED <<exists, config, clock, issued, controller>>

WriterNext ==
  \/ RegisterNewDump
  \/ RewriteFileContents
  \/ BumpDumpTime
  \/ GetLatestDump
  \/ SetConfig

\* a DumpManager whose callers register, write and bump dumps
WriterSpec == WriterInit /\ [][WriterNext]_vars

(***************************************************************************)
(* GetLatestDump of one caller, step by step, while another caller         *)
(* registers, writes and bumps dumps and sets the config                   *)
(***************************************************************************)

\* GetLatestDumpBegin that takes the config of the last operation
GetLatestDumpBeginStale ==
  /\ inflight.op = "none"
  /\ inflight' = [op |-> "GetLatestDump", pc |-> "exists", config |-> last.config,
                  min_update_time |-> MinAcceptableUpdateTime(last.config, clock),
                  yielded |-> {}, stale |-> {}, whole |-> {}, best_dump |-> Nullopt]
  /\ UNCHANGED <<exists, files, config, clock, last, issued, controller>>

\* GetLatestDump(): config_.Read(), and MinAcceptableUpdateTime(config) of
\* GetLatestDump(const Config&)
GetLatestDumpBegin ==
  /\ inflight.op = "none"
  /\ inflight' = [op |-> "GetLatestDump", pc |-> "exists", config |-> config,
                  min_update_time |-> MinAcceptableUpdateTime(config, clock),
                  yielded |-> {}, stale |-> {}, whole |-> {}, best_dump |-> Nullopt]
  /\ UNCHANGED <<exists, files, config, clock, last, issued, controller>>

\* the call under way returns result; last.files are the entries that were
\* in the directory during the whole scan
GetLatestDumpReturn(error, result) ==
  /\ last' = [Operation("GetLatestDump", inflight.config, error, result) EXCEPT
                !.files = Restrict(files, inflight.whole)]
  /\ inflight' = Idle
  /\ UNCHANGED <<exists, files, config, clock, issued, controller>>

\* boost::filesystem::exists(config.dump_directory), and the directory
\* iterator opened
GetLatestDumpExists ==
  /\ inflight.op = "GetLatestDump" /\ inflight.pc = "exists"
  /\ IF ~exists THEN GetLatestDumpReturn(FALSE, Nullopt)
     ELSE /\ inflight' = [inflight EXCEPT !.pc = "loop", !.whole = DOMAIN files]
          /\ UNCHANGED <<exists, files, config, clock, last, issued, controller>>

\* one pass of the loop over the directory: the iterator yields an entry
\* that is there, or the name of a regular file that has gone
GetLatestDumpLoop ==
  /\ inflight.op = "GetLatestDump" /\ inflight.pc = "loop"
  /\ \E p \in (DOMAIN files \cup inflight.stale) \ inflight.yielded :
       LET file == IF p \in DOMAIN files THEN files[p] ELSE [type |-> "regular"]
           curr_dump == LatestCandidate(p, file, inflight.config,
                                        inflight.min_update_time)
       IN  inflight' = [inflight EXCEPT
                          !.yielded = @ \cup {p},
                          !.stale = @ \ {p},
                          !.best_dump = BestDump(<<[path |-> p, curr_dump |-> curr_dump]>>, @)]
  /\ UNCHANGED <<exists, files, config, clock, last, issued, controller>>

\* GetLatestDumpEnd of an iterator that may end before it has yielded every
\* entry
GetLatestDumpEndEarly ==
  /\ inflight.op = "GetLatestDump" /\ inflight.pc = "loop"
  /\ GetLatestDumpReturn(FALSE, inflight.best_dump)

\* the iterator is at its end: it has yielded every entry that was there
\* during the whole scan
GetLatestDumpEnd ==
  /\ inflight.op = "GetLatestDump" /\ inflight.pc = "loop"
  /\ inflight.whole \subseteq inflight.yielded
  /\ GetLatestDumpReturn(FALSE, inflight.best_dump)

\* catch (const std::exception&): proceed to return best_dump
GetLatestDumpCatch ==
  /\ inflight.op = "GetLatestDump"
  /\ GetLatestDumpReturn(TRUE, inflight.best_dump)

ScanInit ==
  /\ exists \in BOOLEAN
  /\ files \in IF exists THEN WriterDirectories ELSE {<<>>}
  /\ config \in Configs
  /\ clock \in {c \in Clocks : c.ns = 0}
  /\ last = Operation("DumpManager", config, FALSE, Nullopt)
  /\ issued = <<>>
  /\ inflight = Idle
  /\ controller = Cold

ScanNext ==
  \/ GetLatestDumpBegin
  \/ GetLatestDumpExists
  \/ GetLatestDumpLoop
  \/ GetLatestDumpEnd
  \/ GetLatestDumpCatch
  \/ RegisterNewDump
  \/ RewriteFileContents
  \/ BumpDumpTime

\* GetLatestDump of one caller interleaved with the operations of another
\* that registers, writes and bumps dumps
ScanSpec == ScanInit /\ [][ScanNext]_vars

\* Cleanup is not thread-safe (dump_manager.hpp: "The class is thread-safe,
\* except for `Cleanup`"): it runs while no GetLatestDump is under way
CleanupAlone == inflight.op = "none" /\ Cleanup

ConfigNext ==
  \/ GetLatestDumpBegin
  \/ GetLatestDumpExists
  \/ GetLatestDumpLoop
  \/ GetLatestDumpEnd
  \/ GetLatestDumpCatch
  \/ RegisterNewDump
  \/ BumpDumpTime
  \/ CleanupAlone
  \/ SetConfig

\* GetLatestDump of one caller interleaved with SetConfig and the
\* operations of another caller that read the config
ConfigSpec == ScanInit /\ [][ConfigNext]_vars

(***************************************************************************)
(* RegisterNewDump, BumpDumpTime and Cleanup in two steps, config_.Read()  *)
(* and the rest, with SetConfig of another caller in between               *)
(***************************************************************************)

\* const auto config = config_.Read() of the operation op
ConfigRead(op) ==
  /\ inflight.op = "none"
  /\ inflight' = [op |-> op, pc |-> "read", config |-> config]
  /\ UNCHANGED <<exists, files, config, clock, last, issued, controller>>

RegisterNewDumpBegin == Len(issued) < MaxRegistrations /\ ConfigRead("RegisterNewDump")

BumpDumpTimeBegin == ConfigRead("BumpDumpTime")

CleanupBegin == ConfigRead("Cleanup")

\* RegisterNewDumpEnd that takes the format version it returns from config_
\* as it is now
RegisterNewDumpEndRereading ==
  /\ inflight.op = "RegisterNewDump"
  /\ \E update_time \in UpdateTimes :
       \E out \in RegisterNewDumpOutcomes(update_time, inflight.config, exists, files) :
         LET result == IF Threw(out.result) THEN out.result
                       ELSE [out.result EXCEPT
                               !.format_version = config.dump_format_version]
         IN  /\ exists' = out.exists
             /\ files' = out.files
             /\ last' = Call("RegisterNewDump", inflight.config, <<update_time>>, result)
             /\ issued' = IF Threw(result) THEN issued ELSE Append(issued, result)
  /\ inflight' = Idle
  /\ UNCHANGED <<config, clock, controller>>

\* RegisterNewDump after config_.Read(), dump_manager.cpp:32-48
RegisterNewDumpEnd ==
  /\ inflight.op = "RegisterNewDump"
  /\ \E update_time \in UpdateTimes :
       \E out \in RegisterNewDumpOutcomes(update_time, inflight.config, exists, files) :
         /\ exists' = out.exists
         /\ files' = out.files
         /\ last' = Call("RegisterNewDump", inflight.config, <<update_time>>, out.result)
         /\ issued' = IF Threw(out.result) THEN issued ELSE Append(issued, out.result)
  /\ inflight' = Idle
  /\ UNCHANGED <<config, clock, controller>>

\* BumpDumpTime after config_.Read(), dump_manager.cpp:78-97
BumpDumpTimeEnd ==
  /\ inflight.op = "BumpDumpTime"
  /\ \E old_update_time \in UpdateTimes, new_update_time \in UpdateTimes :
       /\ TimeLeq(old_update_time, new_update_time)
       /\ \E out \in BumpDumpTimeOutcomes(old_update_time, new_update_time,
                                          inflight.config, exists, files) :
            /\ files' = out.files
            /\ last' = Call("BumpDumpTime", inflight.config,
                            <<old_update_time, new_update_time>>, out.result)
  /\ inflight' = Idle
  /\ UNCHANGED <<exists, config, clock, issued, controller>>

\* Cleanup after config_.Read(): DoCleanup(*config)
CleanupEnd ==
  /\ inflight.op = "Cleanup"
  /\ \E out \in DoCleanup(inflight.config, clock, exists, files) :
       /\ files' = out.files
       /\ last' = Operation("Cleanup", inflight.config, out.error, Nullopt)
  /\ inflight' = Idle
  /\ UNCHANGED <<exists, config, clock, issued, controller>>

\* a DumpManager constructed with a config of either format version
SnapshotInit ==
  /\ exists \in BOOLEAN
  /\ files \in IF exists THEN WriterDirectories ELSE {<<>>}
  /\ config \in ConstructorConfigs
  /\ clock \in {c \in Clocks : c.ns = 0}
  /\ last = Operation("DumpManager", config, FALSE, Nullopt)
  /\ issued = <<>>
  /\ inflight = Idle
  /\ controller = Cold

SnapshotNext ==
  \/ RegisterNewDumpBegin
  \/ RegisterNewDumpEnd
  \/ BumpDumpTimeBegin
  \/ BumpDumpTimeEnd
  \/ CleanupBegin
  \/ CleanupEnd
  \/ GetLatestDumpBegin
  \/ GetLatestDumpExists
  \/ GetLatestDumpLoop
  \/ GetLatestDumpEnd
  \/ GetLatestDumpCatch
  \/ SetConfig

\* one operation under way at a time, and SetConfig at any time
SnapshotSpec == SnapshotInit /\ [][SnapshotNext]_vars

(***************************************************************************)
(* A caller that dumps: RegisterNewDump, the dump written to the ".tmp"    *)
(* companion of the path, the companion renamed to the path.  inflight     *)
(* holds the dump under way: [op |-> "Dump", pc, stats, cleanup], cleanup  *)
(* telling that Cleanup has run since the registration.                    *)
(***************************************************************************)

\* the ".tmp" companion of the path of a dump
TmpPath(full_path) == Tmp(full_path)

\* the caller calls RegisterNewDump and keeps the DumpFileStats
DumpRegister ==
  /\ inflight.op = "none"
  /\ Len(issued) < MaxRegistrations
  /\ \E update_time \in UpdateTimes :
       \E out \in RegisterNewDumpOutcomes(update_time, config, exists, files) :
         /\ exists' = out.exists
         /\ files' = out.files
         /\ last' = Call("RegisterNewDump", config, <<update_time>>, out.result)
         /\ issued' = IF Threw(out.result) THEN issued ELSE Append(issued, out.result)
         /\ inflight' = IF Threw(out.result) THEN Idle
                        ELSE [op |-> "Dump", pc |-> "registered",
                              stats |-> out.result, cleanup |-> FALSE]
  /\ UNCHANGED <<config, clock, controller>>

\* the caller writes the dump to the ".tmp" companion
DumpWriteTmp ==
  /\ inflight.op = "Dump" /\ inflight.pc = "registered"
  /\ exists
  /\ LET tmp == TmpPath(inflight.stats.full_path) IN
       /\ ~(tmp \in DOMAIN files /\ files[tmp].type = "directory")
       /\ files' = [p \in DOMAIN files \cup {tmp} |->
                      IF p = tmp
                      THEN [type |-> "regular",
                            contents |-> Filename(inflight.stats.full_path)]
                      ELSE files[p]]
       /\ last' = Call("RewriteFileContents", config, <<tmp>>, Nullopt)
  /\ inflight' = [inflight EXCEPT !.pc = "written"]
  /\ UNCHANGED <<exists, config, clock, issued, controller>>

\* the caller renames the ".tmp" companion to the path registered; the
\* rename fails when the companion is not there
DumpRename ==
  /\ inflight.op = "Dump" /\ inflight.pc = "written"
  /\ LET full_path == inflight.stats.full_path
         tmp == TmpPath(inflight.stats.full_path)
         renamed == /\ tmp \in DOMAIN files
                    /\ ~(full_path \in DOMAIN files /\ files[full_path].type = "directory")
     IN  /\ files' = IF renamed THEN Rename(files, tmp, full_path) ELSE files
         /\ last' = Call("Rename", config, <<inflight.stats, inflight.cleanup>>,
                         IF renamed THEN Nullopt ELSE Exception("rename"))
  /\ inflight' = Idle
  /\ UNCHANGED <<exists, config, clock, issued, controller>>

\* Cleanup, called whatever the caller that dumps is doing
DumpCleanup ==
  /\ \E out \in DoCleanup(config, clock, exists, files) :
       /\ files' = out.files
       /\ last' = Operation("Cleanup", config, out.error, Nullopt)
  /\ inflight' = IF inflight.op = "Dump" THEN [inflight EXCEPT !.cleanup = TRUE]
                 ELSE inflight
  /\ UNCHANGED <<exists, config, clock, issued, controller>>

DumpNext ==
  \/ DumpRegister
  \/ DumpWriteTmp
  \/ DumpRename
  \/ DumpCleanup
  \/ GetLatestDump
  \/ BumpDumpTime

\* a caller that dumps through the ".tmp" companion, with Cleanup,
\* GetLatestDump and BumpDumpTime called meanwhile
DumpSpec == WriterInit /\ [][DumpNext]_vars

(***************************************************************************)
(* Two callers in BumpDumpTime at once.  inflight holds the two calls:     *)
(* [op |-> "BumpDumpTime", before, tasks], before the directory when they  *)
(* were made, a task [pc, old_update_time, new_update_time, result].       *)
(***************************************************************************)

\* the update times passed to the two calls: those of UpdateTimes and one
\* in between
BumpTimes == UpdateTimes \cup {PlusSeconds(BaseTime, 1)}

\* the directories the two calls find: dumps at the paths of the callers,
\* files and subdirectories that were there before
BumpDirectories ==
  {d \in Directories : DOMAIN d \subseteq WriterPaths \cup SubdirPaths}

\* the two calls, as UASSERT(old_update_time <= new_update_time) demands
BumpTasks ==
  {task \in [pc : {"called"}, old_update_time : BumpTimes,
             new_update_time : BumpTimes, result : {FALSE}] :
     TimeLeq(task.old_update_time, task.new_update_time)}

BumpInit ==
  /\ exists = TRUE
  /\ files \in BumpDirectories
  /\ config \in {c \in ConstructorConfigs :
                   c.max_dump_count = 1 /\ ~c.max_dump_age.has_value}
  /\ clock \in {c \in Clocks : c.ns = 0}
  /\ last = Operation("DumpManager", config, FALSE, Nullopt)
  /\ issued = <<>>
  /\ \E a \in BumpTasks, b \in BumpTasks :
       inflight = [op |-> "BumpDumpTime", before |-> files, tasks |-> <<a, b>>]
  /\ controller = Cold

\* call i returns result
BumpReturn(i, result) ==
  /\ inflight' = [inflight EXCEPT !.tasks[i].pc = "returned",
                                  !.tasks[i].result = result]
  /\ last' = Call("BumpDumpTime", config,
                  <<inflight.tasks[i].old_update_time,
                    inflight.tasks[i].new_update_time>>, result)

\* call i: boost::filesystem::is_regular_file(old_name); false is returned
\* when it is none and when the test fails with a filesystem error
BumpIsRegularFile(i) ==
  /\ inflight.op = "BumpDumpTime"
  /\ inflight.tasks[i].pc = "called"
  /\ LET old_name == GenerateDumpPath(inflight.tasks[i].old_update_time, config) IN
       \/ /\ old_name \in DOMAIN files /\ files[old_name].type = "regular"
          /\ inflight' = [inflight EXCEPT !.tasks[i].pc = "checked"]
          /\ UNCHANGED last
       \/ BumpReturn(i, FALSE)
  /\ UNCHANGED <<exists, files, config, clock, issued, controller>>

\* the rename of call i that copies the file and leaves the old name
BumpRenameCopying(i) ==
  /\ inflight.op = "BumpDumpTime"
  /\ inflight.tasks[i].pc = "checked"
  /\ LET old_name == GenerateDumpPath(inflight.tasks[i].old_update_time, config)
         new_name == GenerateDumpPath(inflight.tasks[i].new_update_time, config)
     IN  \/ /\ old_name \in DOMAIN files
            /\ ~(new_name \in DOMAIN files /\ files[new_name].type = "directory")
            /\ files' = [p \in DOMAIN files \cup {new_name} |->
                           IF p = new_name THEN files[old_name] ELSE files[p]]
            /\ BumpReturn(i, TRUE)
         \/ /\ UNCHANGED files
            /\ BumpReturn(i, FALSE)
  /\ UNCHANGED <<exists, config, clock, issued, controller>>

\* call i: boost::filesystem::rename(old_name, new_name); it fails when
\* old_name is gone, onto a directory, and with any other filesystem
\* error, and false is returned then
BumpRename(i) ==
  /\ inflight.op = "BumpDumpTime"
  /\ inflight.tasks[i].pc = "checked"
  /\ LET old_name == GenerateDumpPath(inflight.tasks[i].old_update_time, config)
         new_name == GenerateDumpPath(inflight.tasks[i].new_update_time, config)
     IN  \/ /\ old_name \in DOMAIN files
            /\ ~(new_name \in DOMAIN files /\ files[new_name].type = "directory")
            /\ files' = Rename(files, old_name, new_name)
            /\ BumpReturn(i, TRUE)
         \/ /\ UNCHANGED files
            /\ BumpReturn(i, FALSE)
  /\ UNCHANGED <<exists, config, clock, issued, controller>>

BumpNext ==
  \/ \E i \in 1..2 : BumpIsRegularFile(i)
  \/ \E i \in 1..2 : BumpRename(i)

\* two calls of BumpDumpTime whose steps interleave in every way
BumpSpec == BumpInit /\ [][BumpNext]_vars

(***************************************************************************)
(* GenerateDumpPath and ParseDumpName applied one after the other           *)
(***************************************************************************)

\* update times from the epoch to the first day of the year 10000, each
\* at midnight, at the last second of the day and in between
RoundTripTimes ==
  {[day |-> DaysFromCivil(c[1], c[2], c[3]), sec |-> s, us |-> u] :
     c \in {<<1970, 1, 1>>, <<2000, 2, 29>>, <<2015, 3, 22>>,
            <<9999, 12, 31>>, <<10000, 1, 1>>},
     s \in {0, 9 * 3600, 86399},
     u \in {0, 1, 999999}}

\* configs of the format versions 0, that of the tests, and larger ones
RoundTripConfigs ==
  [dump_directory : {DumpDirectory},
   dump_format_version : {0, 5, 42, 2147483647},
   max_dump_age : {Nullopt},
   max_dump_count : {1}]

RoundTripInit ==
  /\ exists = TRUE
  /\ files = <<>>
  /\ config \in RoundTripConfigs
  /\ clock \in {c \in Clocks : c.ns = 0}
  /\ \E update_time \in RoundTripTimes :
       last = Call("DumpManager", config, <<update_time>>, Nullopt)
  /\ issued = <<>>
  /\ inflight = Idle
  /\ controller = Cold

\* std::string DumpManager::GenerateDumpPath(update_time, config)
GenerateDumpPathStep ==
  /\ last.op = "DumpManager"
  /\ last' = Call("GenerateDumpPath", config, last.args,
                  GenerateDumpPath(last.args[1], config))
  /\ UNCHANGED <<exists, files, config, clock, issued, inflight, controller>>

\* std::optional<DumpFileStats> DumpManager::ParseDumpName(full_path) of the
\* path generated
ParseDumpNameStep ==
  /\ last.op = "GenerateDumpPath"
  /\ last' = Call("ParseDumpName", config, <<last.args[1], last.result>>,
                  ParseDumpNameOf(last.result))
  /\ UNCHANGED <<exists, files, config, clock, issued, inflight, controller>>

RoundTripNext == GenerateDumpPathStep \/ ParseDumpNameStep

RoundTripSpec == RoundTripInit /\ [][RoundTripNext]_vars

(***************************************************************************)
(* Cache configs (cache_config.cpp).  A document is a record of its        *)
(* members, each absent (Nullopt) or present with a value; a duration is   *)
(* its count of milliseconds.                                              *)
(***************************************************************************)

kFullAndIncremental == "kFullAndIncremental"
kOnlyFull == "kOnlyFull"
kOnlyIncremental == "kOnlyIncremental"

kRequired == "kRequired"
kBestEffort == "kBestEffort"
kSkip == "kSkip"

\* constexpr auto kDefaultCleanupInterval = std::chrono::seconds{10}
kDefaultCleanupInterval == 10000

\* std::chrono::milliseconds GetDefaultJitter(std::chrono::milliseconds interval)
GetDefaultJitter(interval) == interval \div 10

\* config[key].As<T>(default): the member, or default when it is absent
As(member, default) == IF member.has_value THEN member.value ELSE default

\* AllowedUpdateTypes ParseUpdateMode(const yaml_config::YamlConfig& config)
ParseUpdateMode(doc) ==
  IF ~doc.update_types.has_value
  THEN IF doc.full_update_interval.has_value /\ doc.update_interval.has_value
       THEN Optional(kFullAndIncremental)
       ELSE Optional(kOnlyFull)
  ELSE IF doc.update_types.value = "full-and-incremental" THEN Optional(kFullAndIncremental)
  ELSE IF doc.update_types.value = "only-full" THEN Optional(kOnlyFull)
  ELSE IF doc.update_types.value = "only-incremental" THEN Optional(kOnlyIncremental)
  ELSE Exception("ParseUpdateMode")

\* FirstUpdateMode Parse(const yaml_config::YamlConfig&, To<FirstUpdateMode>)
ParseFirstUpdateMode(as_string) ==
  IF as_string = "required" THEN Optional(kRequired)
  ELSE IF as_string = "best-effort" THEN Optional(kBestEffort)
  ELSE IF as_string = "skip" THEN Optional(kSkip)
  ELSE Exception("ParseFirstUpdateMode")

\* CacheConfig::CacheConfig(const components::ComponentConfig& config)
CacheConfig(doc) ==
  LET Base(update_interval) ==
        [update_interval |-> update_interval,
         update_jitter |-> As(doc.update_jitter, GetDefaultJitter(update_interval)),
         full_update_interval |-> As(doc.full_update_interval, 0),
         cleanup_interval |-> As(doc.cleanup_interval, kDefaultCleanupInterval)]
  IN  Base(As(doc.update_interval, 0))

\* CacheConfigJson that leaves an interval of zero as it is
CacheConfigJsonUnnormalized(value) ==
  LET Parsed(update_interval, update_jitter, full_update_interval) ==
        IF update_interval = 0 /\ full_update_interval = 0
        THEN Exception("Update interval is not set for cache")
        ELSE [update_interval |-> update_interval,
              update_jitter |-> IF update_jitter > update_interval
                                THEN GetDefaultJitter(update_interval)
                                ELSE update_jitter,
              full_update_interval |-> full_update_interval,
              cleanup_interval |-> As(value.cleanup_interval_ms, kDefaultCleanupInterval)]
  IN  IF ~(value.update_interval_ms.has_value /\ value.update_jitter_ms.has_value
             /\ value.full_update_interval_ms.has_value)
      THEN Exception("ParseMs")
      ELSE Parsed(value.update_interval_ms.value, value.update_jitter_ms.value,
                  value.full_update_interval_ms.value)

\* CacheConfig::CacheConfig(const formats::json::Value& value).  ParseMs of a
\* member that is absent and has no default throws.
CacheConfigJson(value) ==
  LET Normal(update_interval, update_jitter, full_update_interval) ==
        [update_interval |-> update_interval,
         update_jitter |-> IF update_jitter > update_interval
                           THEN GetDefaultJitter(update_interval)
                           ELSE update_jitter,
         full_update_interval |-> full_update_interval,
         cleanup_interval |-> As(value.cleanup_interval_ms, kDefaultCleanupInterval)]
      Parsed(update_interval, update_jitter, full_update_interval) ==
        IF update_interval = 0 /\ full_update_interval = 0
        THEN Exception("Update interval is not set for cache")
        ELSE IF full_update_interval = 0
          THEN Normal(update_interval, update_jitter, update_interval)
        ELSE IF update_interval = 0
          THEN Normal(full_update_interval, update_jitter, full_update_interval)
        ELSE Normal(update_interval, update_jitter, full_update_interval)
  IN  IF ~(value.update_interval_ms.has_value /\ value.update_jitter_ms.has_value
             /\ value.full_update_interval_ms.has_value)
      THEN Exception("ParseMs")
      ELSE Parsed(value.update_interval_ms.value, value.update_jitter_ms.value,
                  value.full_update_interval_ms.value)

\* case kFullAndIncremental that demands neither interval
CaseFullAndIncrementalUnchecked(cfg) == cfg

\* case AllowedUpdateTypes::kFullAndIncremental of the constructor's switch
CaseFullAndIncremental(cfg) ==
  IF cfg.update_interval = 0 \/ cfg.full_update_interval = 0
  THEN Exception("Both update-interval and full-update-interval must be set")
  ELSE cfg

\* cases kOnlyFull and kOnlyIncremental that leave full_update_interval alone
CaseOnlyFullOrIncrementalNotCopying(cfg) ==
  IF cfg.full_update_interval # 0
  THEN Exception("full-update-interval must only be used with full-and-incremental")
  ELSE IF cfg.update_interval = 0 THEN Exception("update-interval is not set")
  ELSE cfg

\* cases AllowedUpdateTypes::kOnlyFull and kOnlyIncremental of the switch
CaseOnlyFullOrIncremental(cfg) ==
  IF cfg.full_update_interval # 0
  THEN Exception("full-update-interval must only be used with full-and-incremental")
  ELSE IF cfg.update_interval = 0 THEN Exception("update-interval is not set")
  ELSE [cfg EXCEPT !.full_update_interval = cfg.update_interval]

\* the constructor without its demand for max-dump-age
MaxDumpAgeDemandDropped(cfg, dump_config) == {cfg}

\* if (first_update_mode != kRequired && !dump_config->max_dump_age_set):
\* the outcomes.  Without a dump_config the read is of an empty optional and
\* may come out either way.
MaxDumpAgeDemand(cfg, dump_config) ==
  IF cfg.first_update_mode = kRequired THEN {cfg}
  ELSE IF ~dump_config.has_value
    THEN {cfg, Exception("max-dump-age must be set")}
  ELSE IF ~dump_config.value.max_dump_age_set
    THEN {Exception("max-dump-age must be set")}
  ELSE {cfg}

\* the demand for force-full-second-update made of no cache
ForceFullSecondUpdateDemandDropped(cfg, dump) == cfg

\* if (allowed_update_types == kOnlyIncremental &&
\*     !config[dump::kDump].HasMember(kForceFullSecondUpdate))
ForceFullSecondUpdateDemand(cfg, dump) ==
  IF cfg.allowed_update_types = kOnlyIncremental
       /\ ~dump.force_full_second_update.has_value
  THEN Exception("force-full-second-update must be set")
  ELSE cfg

\* the members of the dump section of a document that has none
NoDump == [first_update_mode |-> Nullopt, force_full_second_update |-> Nullopt]

\* CacheConfigStatic::CacheConfigStatic(const components::ComponentConfig&,
\*     const std::optional<dump::Config>&): the possible outcomes, each the
\* config constructed or the exception thrown
CacheConfigStatic(doc, dump_config) ==
  LET Dump(cfg, dump) ==
        IF Threw(cfg) THEN {cfg}
        ELSE IF ~doc.dump.has_value THEN {cfg}
        ELSE IF ~dump.first_update_mode.has_value
          THEN {Exception("first-update-mode must be set")}
        ELSE {IF Threw(c) THEN c ELSE ForceFullSecondUpdateDemand(c, dump) :
                c \in MaxDumpAgeDemand(cfg, dump_config)}
      Switch(cfg) ==
        IF cfg.allowed_update_types = kFullAndIncremental
        THEN CaseFullAndIncremental(cfg)
        ELSE CaseOnlyFullOrIncremental(cfg)
      Members(base, allowed_update_types, first_update_mode, dump) ==
        IF Threw(allowed_update_types) THEN {allowed_update_types}
        ELSE IF Threw(first_update_mode) THEN {first_update_mode}
        ELSE Dump(Switch([update_interval |-> base.update_interval,
                          update_jitter |-> base.update_jitter,
                          full_update_interval |-> base.full_update_interval,
                          cleanup_interval |-> base.cleanup_interval,
                          allowed_update_types |-> allowed_update_types.value,
                          allow_first_update_failure |-> As(doc.first_update_fail_ok, FALSE),
                          force_periodic_update |-> doc.testsuite_force_periodic_update,
                          config_updates_enabled |-> As(doc.config_settings, TRUE),
                          first_update_mode |-> first_update_mode.value,
                          force_full_second_update |->
                            As(dump.force_full_second_update, FALSE)]),
                  dump)
      Parse(dump) ==
        Members(CacheConfig(doc),
                ParseUpdateMode(doc),
                IF dump.first_update_mode.has_value
                THEN ParseFirstUpdateMode(dump.first_update_mode.value)
                ELSE Optional(kSkip),
                dump)
  IN  Parse(As(doc.dump, NoDump))

\* MergeWith that returns the receiver
MergeWithNothing(self, other) == self

\* CacheConfigStatic CacheConfigStatic::MergeWith(const CacheConfig& other) const
MergeWith(self, other) ==
  [self EXCEPT !.update_interval = other.update_interval,
               !.update_jitter = other.update_jitter,
               !.full_update_interval = other.full_update_interval,
               !.cleanup_interval = other.cleanup_interval]

\* the documents a static cache config is read from: intervals absent, zero
\* and positive, a jitter under and over update-interval, every update type
\* and first update mode and a string that is none
ComponentConfigs ==
  [update_interval : {Nullopt, Optional(0), Optional(1000), Optional(5000)},
   update_jitter : {Nullopt, Optional(100), Optional(2000)},
   full_update_interval : {Nullopt, Optional(0), Optional(5000)},
   cleanup_interval : {Nullopt, Optional(3000)},
   update_types : {Nullopt, Optional("full-and-incremental"), Optional("only-full"),
                   Optional("only-incremental"), Optional("sometimes")},
   first_update_fail_ok : {Nullopt, Optional(TRUE)},
   testsuite_force_periodic_update : {Nullopt},
   config_settings : {Nullopt},
   dump : {Nullopt} \cup
          {Optional(d) : d \in
             [first_update_mode : {Nullopt, Optional("required"), Optional("best-effort"),
                                   Optional("skip"), Optional("sometimes")},
              force_full_second_update : {Nullopt, Optional(FALSE), Optional(TRUE)}]}]

\* const std::optional<dump::Config>& dump_config, of which the constructor
\* reads max_dump_age_set
DumpConfigs ==
  {Nullopt, Optional([max_dump_age_set |-> FALSE]), Optional([max_dump_age_set |-> TRUE])}

\* the values a dynamic cache config is read from
JsonValues ==
  [update_interval_ms : {Nullopt, Optional(0), Optional(1000)},
   update_jitter_ms : {Nullopt, Optional(100), Optional(2000)},
   full_update_interval_ms : {Nullopt, Optional(0), Optional(5000)},
   cleanup_interval_ms : {Nullopt, Optional(3000)}]

CacheConfigInit ==
  /\ exists = TRUE
  /\ files = <<>>
  /\ config \in {c \in RoundTripConfigs : c.dump_format_version = 5}
  /\ clock \in {c \in Clocks : c.ns = 0}
  /\ \/ \E doc \in ComponentConfigs, dump_config \in DumpConfigs :
          last = Call("ComponentConfig", config, <<doc, dump_config>>, Nullopt)
     \/ \E value \in JsonValues :
          last = Call("Value", config, <<value>>, Nullopt)
  /\ issued = <<>>
  /\ inflight = Idle
  /\ controller = Cold

\* CacheConfig(const components::ComponentConfig&) is called
ConstructCacheConfig ==
  /\ last.op = "ComponentConfig"
  /\ last' = Call("CacheConfig", config, <<last.args[1]>>, CacheConfig(last.args[1]))
  /\ UNCHANGED <<exists, files, config, clock, issued, inflight, controller>>

\* CacheConfig(const formats::json::Value&) is called
ConstructCacheConfigJson ==
  /\ last.op = "Value"
  /\ last' = Call("CacheConfigJson", config, last.args, CacheConfigJson(last.args[1]))
  /\ UNCHANGED <<exists, files, config, clock, issued, inflight, controller>>

\* CacheConfigStatic(config, dump_config) is called
ConstructCacheConfigStatic ==
  /\ last.op = "ComponentConfig"
  /\ \E out \in CacheConfigStatic(last.args[1], last.args[2]) :
       last' = Call("CacheConfigStatic", config, last.args, out)
  /\ UNCHANGED <<exists, files, config, clock, issued, inflight, controller>>

\* MergeWith is called on a static config that has been constructed or
\* merged before, with a dynamic config that has been constructed
CallMergeWith ==
  /\ last.op \in {"CacheConfigStatic", "MergeWith"} /\ ~Threw(last.result)
  /\ \E value \in JsonValues :
       LET Merge(self, other) ==
             /\ ~Threw(other)
             /\ last' = Call("MergeWith", config, <<self, other>>, MergeWith(self, other))
       IN  Merge(last.result, CacheConfigJson(value))
  /\ UNCHANGED <<exists, files, config, clock, issued, inflight, controller>>

CacheConfigNext ==
  \/ ConstructCacheConfig
  \/ ConstructCacheConfigJson
  \/ ConstructCacheConfigStatic
  \/ CallMergeWith

\* cache configs constructed from every document and merged
CacheConfigSpec == CacheConfigInit /\ [][CacheConfigNext]_vars

(***************************************************************************)
(* The cache controller: Cold, Warming, Ready, Updating, Ready, ...,       *)
(* Stopping, Stopped.  It calls on_update of the cache and the             *)
(* DumpManager.                                                            *)
(***************************************************************************)

\* Cold -> Warming: entered on start
ControllerStart ==
  /\ controller.state = "Cold"
  /\ controller' = [controller EXCEPT !.state = "Warming"]
  /\ UNCHANGED <<exists, files, config, clock, last, issued, inflight>>

\* Warming: the controller asks the DumpManager for the latest usable dump
WarmingGetLatestDump ==
  /\ controller.state = "Warming" /\ controller.on_update = 0
  /\ GetLatestDump

\* Warming -> Ready: a dump exists and deserialize succeeds
WarmFromDump ==
  /\ controller.state = "Warming" /\ controller.on_update = 0
  /\ last.op = "GetLatestDump" /\ last.result.has_value
  /\ controller' = [controller EXCEPT !.state = "Ready"]
  /\ UNCHANGED <<exists, files, config, clock, last, issued, inflight>>

\* Warming: no dump has been loaded, an update is tried
FirstUpdateBegin ==
  /\ controller.state = "Warming" /\ controller.on_update = 0
  /\ last.op = "GetLatestDump"
  /\ controller' = [controller EXCEPT !.on_update = @ + 1]
  /\ UNCHANGED <<exists, files, config, clock, last, issued, inflight>>

\* Warming -> Ready when the first update succeeds or its failure is
\* allowed; the controller stops when it is not
FirstUpdateEnd ==
  /\ controller.state = "Warming" /\ controller.on_update > 0
  /\ \E state \in {"Ready", "Stopping"} :
       controller' = [state |-> state, on_update |-> controller.on_update - 1,
                      updated |-> TRUE]
  /\ UNCHANGED <<exists, files, config, clock, last, issued, inflight>>

\* Ready -> Updating: the deadline of the scheduler expires
DeadlineExpires ==
  /\ controller.state = "Ready"
  /\ controller' = [controller EXCEPT !.state = "Updating", !.on_update = @ + 1]
  /\ UNCHANGED <<exists, files, config, clock, last, issued, inflight>>

\* an external trigger that does not wait for the update under way
ExternalTriggerAtOnce ==
  /\ controller.state \in {"Ready", "Updating"}
  /\ controller.on_update < 2
  /\ controller' = [controller EXCEPT !.state = "Updating", !.on_update = @ + 1]
  /\ UNCHANGED <<exists, files, config, clock, last, issued, inflight>>

\* Ready -> Updating: on external trigger
ExternalTrigger ==
  /\ controller.state = "Ready"
  /\ controller' = [controller EXCEPT !.state = "Updating", !.on_update = @ + 1]
  /\ UNCHANGED <<exists, files, config, clock, last, issued, inflight>>

\* on_update returns
OnUpdateReturns ==
  /\ controller.state = "Updating" /\ controller.on_update > 0
  /\ controller' = [controller EXCEPT !.on_update = @ - 1, !.updated = TRUE]
  /\ UNCHANGED <<exists, files, config, clock, last, issued, inflight>>

\* Updating -> Ready: new content is registered and written
UpdatingRegisterNewDump ==
  /\ controller.state = "Updating" /\ controller.on_update = 0
  /\ RegisterNewDump

UpdatingRewriteFileContents ==
  /\ controller.state = "Updating" /\ controller.on_update = 0
  /\ RewriteFileContents

\* Updating -> Ready: the content equals the previous, the dump is bumped
UpdatingBumpDumpTime ==
  /\ controller.state = "Updating" /\ controller.on_update = 0
  /\ BumpDumpTime

\* Updating -> Ready
UpdateDone ==
  /\ controller.state = "Updating" /\ controller.on_update = 0
  /\ controller' = [controller EXCEPT !.state = "Ready"]
  /\ UNCHANGED <<exists, files, config, clock, last, issued, inflight>>

\* periodic cleanup, once per cleanup_interval
PeriodicCleanup ==
  /\ controller.state = "Ready"
  /\ Cleanup

\* any state -> Stopping
ControllerStop ==
  /\ controller.state \in {"Cold", "Warming", "Ready", "Updating"}
  /\ controller' = [controller EXCEPT !.state = "Stopping"]
  /\ UNCHANGED <<exists, files, config, clock, last, issued, inflight>>

\* Stopping: the update in flight is awaited or cancelled
StoppingUpdateEnds ==
  /\ controller.state = "Stopping" /\ controller.on_update > 0
  /\ controller' = [controller EXCEPT !.on_update = @ - 1]
  /\ UNCHANGED <<exists, files, config, clock, last, issued, inflight>>

\* Stopping -> Stopped
ControllerStopped ==
  /\ controller.state = "Stopping" /\ controller.on_update = 0
  /\ controller' = [controller EXCEPT !.state = "Stopped"]
  /\ UNCHANGED <<exists, files, config, clock, last, issued, inflight>>

ControllerNext ==
  \/ ControllerStart
  \/ WarmingGetLatestDump
  \/ WarmFromDump
  \/ FirstUpdateBegin
  \/ FirstUpdateEnd
  \/ DeadlineExpires
  \/ ExternalTrigger
  \/ OnUpdateReturns
  \/ UpdatingRegisterNewDump
  \/ UpdatingRewriteFileContents
  \/ UpdatingBumpDumpTime
  \/ UpdateDone
  \/ PeriodicCleanup
  \/ ControllerStop
  \/ StoppingUpdateEnds
  \/ ControllerStopped

\* one cache: its controller and its DumpManager
ControllerSpec == ScanInit /\ [][ControllerNext]_vars

(***************************************************************************)
(* Reading a state that an operation has just left                         *)
(***************************************************************************)

\* the paths of the regular files of a directory
RegularFiles(dir) == {p \in DOMAIN dir : dir[p].type = "regular"}

\* the finalized dumps of a directory: the regular files whose names parse
Dumps(dir) == {ParseDumpName(p) : p \in {q \in RegularFiles(dir) : ParseDumpName(q).has_value}}

\* the oldest update_time the configuration and clock of the last operation accept
LastMinUpdateTime == MinusMillis(Round(last.clock), last.config.max_dump_age.value)

TooOld(dump) == last.config.max_dump_age.has_value /\ TimeLess(dump.update_time, LastMinUpdateTime)

Current(dump) == dump.format_version = last.config.dump_format_version

CleanupDone == last.op = "Cleanup" /\ ~last.error

\* the file at path p is in the directory as it was before the last operation
Untouched(p) == p \in DOMAIN files /\ files[p] = last.files[p]

\* current-version dumps before the last operation that pass the version and age rule
Survivors == {d \in Dumps(last.files) : Current(d) /\ ~TooOld(d)}

\* current-version dumps in the directory now
Remaining == {d \in Dumps(files) : Current(d)}

\* d is at least as new as every dump of D
Newest(d, D) == \A e \in D : ~TimeLess(d.update_time, e.update_time)

Min(a, b) == IF a < b THEN a ELSE b

(***************************************************************************)
(* C1: after a Cleanup without a filesystem error, the current-version     *)
(* dumps that remain are min(N, survivors) of the current-version dumps    *)
(* that passed the version and age rule, N = max_dump_count, none of them  *)
(* older than a removed one; dumps of later versions that passed the age   *)
(* rule are all still there, whatever N.                                   *)
(***************************************************************************)
CleanupKeepsNewestByCount ==
  CleanupDone =>
    /\ Cardinality(Remaining) <= last.config.max_dump_count
    /\ Remaining \subseteq Survivors
    /\ Cardinality(Remaining) = Min(last.config.max_dump_count, Cardinality(Survivors))
    /\ \A r \in Remaining : Newest(r, Survivors \ Remaining)
    /\ \A d \in Dumps(last.files) :
         (d.format_version > last.config.dump_format_version /\ ~TooOld(d))
           => Untouched(d.full_path)

\* the count rule removed a dump although a dump of a later version is kept
CleanupByCountWitness ==
  /\ CleanupDone
  /\ Cardinality(Survivors) > last.config.max_dump_count
  /\ Cardinality(Remaining) = last.config.max_dump_count
  /\ \E d \in Dumps(files) : d.format_version > last.config.dump_format_version

(***************************************************************************)
(* C2: after a Cleanup without a filesystem error no regular file whose    *)
(* name matches the tmp pattern is left in the dump directory.             *)
(***************************************************************************)
CleanupRemovesTmp ==
  CleanupDone => \A p \in RegularFiles(files) : ~MatchesTmp(p)

CleanupRemovesTmpWitness ==
  /\ CleanupDone
  /\ \E p \in RegularFiles(last.files) : MatchesTmp(p)

(***************************************************************************)
(* C3: after a Cleanup without a filesystem error no finalized dump of a   *)
(* format version below dump_format_version is left, however new it is.    *)
(***************************************************************************)
CleanupRemovesOldVersions ==
  CleanupDone =>
    \A d \in Dumps(files) : ~(d.format_version < last.config.dump_format_version)

\* a dump of an older version that the age rule and the count rule spare
CleanupRemovesOldVersionsWitness ==
  /\ CleanupDone
  /\ \E d \in Dumps(last.files) :
       /\ d.format_version < last.config.dump_format_version
       /\ ~TooOld(d)
       /\ Newest(d, Dumps(last.files))

(***************************************************************************)
(* C4: after a Cleanup without a filesystem error and with max_dump_age    *)
(* set, no finalized dump of any version with                              *)
(* update_time < Round(now) - max_dump_age is left; a dump that is not     *)
(* that old (one exactly at that time, or any dump when max_dump_age is    *)
(* unset) is removed only for its older version or by the count rule.      *)
(***************************************************************************)
CleanupRemovesByAge ==
  CleanupDone =>
    /\ \A d \in Dumps(files) : ~TooOld(d)
    /\ \A d \in Dumps(last.files) :
         (~TooOld(d) /\ ~Untouched(d.full_path)) =>
           \/ d.format_version < last.config.dump_format_version
           \/ /\ Current(d)
              /\ Cardinality(Remaining) = last.config.max_dump_count
              /\ \A r \in Remaining : ~TimeLess(r.update_time, d.update_time)

\* a dump went for its age, a dump exactly at the oldest accepted time stayed
CleanupRemovesByAgeWitness ==
  /\ CleanupDone
  /\ \E d \in Dumps(last.files) : TooOld(d) /\ d.format_version >= last.config.dump_format_version
  /\ \E d \in Dumps(files) : d.update_time = LastMinUpdateTime

(***************************************************************************)
(* C5: a Cleanup, with or without a filesystem error, leaves the files     *)
(* whose names match neither the finalized nor the tmp pattern as they     *)
(* were, and adds none.                                                    *)
(***************************************************************************)
Unrelated(p) == ~MatchesNormal(p) /\ ~MatchesTmp(p)

CleanupKeepsUnrelated ==
  last.op = "Cleanup" =>
    /\ \A p \in DOMAIN last.files : Unrelated(p) => Untouched(p)
    /\ \A p \in DOMAIN files : Unrelated(p) => p \in DOMAIN last.files

CleanupKeepsUnrelatedWitness ==
  /\ CleanupDone
  /\ \E p \in DOMAIN last.files : Unrelated(p)
  /\ DOMAIN files # DOMAIN last.files

(***************************************************************************)
(* C6, as the spec states it: Cleanup leaves every finalized dump of a     *)
(* version above dump_format_version as it was, and GetLatestDump returns  *)
(* no such dump.                                                           *)
(***************************************************************************)
CleanupKeepsLaterVersions ==
  /\ last.op = "Cleanup" =>
       \A d \in Dumps(last.files) :
         d.format_version > last.config.dump_format_version => Untouched(d.full_path)
  /\ (last.op = "GetLatestDump" /\ last.result.has_value) =>
       ~(last.result.format_version > last.config.dump_format_version)

(***************************************************************************)
(* C6, amended: Cleanup leaves a finalized dump of a version above         *)
(* dump_format_version as it was unless max_dump_age is set and the dump   *)
(* is older than Round(now) - max_dump_age, and then a Cleanup without a   *)
(* filesystem error removes it; GetLatestDump returns no dump of a         *)
(* version above dump_format_version.                                      *)
(***************************************************************************)
CleanupKeepsLaterVersionsInAge ==
  /\ last.op = "Cleanup" =>
       \A d \in Dumps(last.files) :
         d.format_version > last.config.dump_format_version =>
           IF TooOld(d) THEN (~last.error => d.full_path \notin DOMAIN files)
           ELSE Untouched(d.full_path)
  /\ (last.op = "GetLatestDump" /\ last.result.has_value) =>
       ~(last.result.format_version > last.config.dump_format_version)

\* a Cleanup that removed files and left a dump of a later version
CleanupKeepsLaterVersionsWitness ==
  /\ CleanupDone
  /\ DOMAIN files # DOMAIN last.files
  /\ \E d \in Dumps(files) : d.format_version > last.config.dump_format_version

(***************************************************************************)
(* C7: a GetLatestDump without a filesystem error returns a finalized dump *)
(* of the current version and within max_dump_age that is at least as new  *)
(* as every other such dump of the directory, and returns none exactly     *)
(* when the directory holds no such dump or does not exist.                *)
(***************************************************************************)
Candidates == {d \in Dumps(files) : Current(d) /\ ~TooOld(d)}

GetLatestDumpReturnsNewest ==
  (last.op = "GetLatestDump" /\ ~last.error) =>
    IF Candidates = {} THEN ~last.result.has_value
    ELSE last.result \in Candidates /\ Newest(last.result, Candidates)

\* two candidates of different times, and a newer dump that is no candidate
GetLatestDumpReturnsNewestWitness ==
  /\ last.op = "GetLatestDump" /\ ~last.error
  /\ \E d \in Candidates : TimeLess(d.update_time, last.result.update_time)
  /\ \E d \in Dumps(files) \ Candidates : TimeLess(last.result.update_time, d.update_time)

(***************************************************************************)
(* C8: a dump that GetLatestDump returns has the dump_format_version of    *)
(* the config the call read, also when dumps of other versions are newer.  *)
(***************************************************************************)
GetLatestDumpReturnsCurrentVersion ==
  (last.op = "GetLatestDump" /\ last.result.has_value) =>
    last.result.format_version = last.config.dump_format_version

GetLatestDumpReturnsCurrentVersionWitness ==
  /\ last.op = "GetLatestDump" /\ last.result.has_value
  /\ \E d \in Dumps(files) :
       /\ d.format_version > last.config.dump_format_version
       /\ TimeLess(last.result.update_time, d.update_time)
  /\ \E d \in Dumps(files) :
       /\ d.format_version < last.config.dump_format_version
       /\ TimeLess(last.result.update_time, d.update_time)

(***************************************************************************)
(* C9: with max_dump_age set GetLatestDump returns no dump with            *)
(* update_time < Round(now) - max_dump_age; a current-version dump that is *)
(* not that old (one exactly at that time, or any when max_dump_age is     *)
(* unset) is not rejected: a GetLatestDump without a filesystem error      *)
(* returns it or a dump at least as new.                                   *)
(***************************************************************************)
GetLatestDumpRespectsMaxAge ==
  last.op = "GetLatestDump" =>
    /\ last.result.has_value => ~TooOld(last.result)
    /\ ~last.error =>
         \A d \in Dumps(files) :
           (Current(d) /\ ~TooOld(d)) =>
             last.result.has_value /\ ~TimeLess(last.result.update_time, d.update_time)

\* the dump returned is exactly at the oldest accepted time, an older one is not taken
GetLatestDumpRespectsMaxAgeWitness ==
  /\ last.op = "GetLatestDump" /\ last.result.has_value
  /\ last.config.max_dump_age.has_value
  /\ last.result.update_time = LastMinUpdateTime
  /\ \E d \in Dumps(files) : Current(d) /\ TooOld(d)

(***************************************************************************)
(* C10: GetLatestDump leaves the dump directory as it was: the same        *)
(* entries with the same contents, whatever it returns.                    *)
(***************************************************************************)
GetLatestDumpReadOnly ==
  last.op = "GetLatestDump" => (files = last.files /\ exists = last.exists)

GetLatestDumpReadOnlyWitness ==
  /\ last.op = "GetLatestDump" /\ last.result.has_value
  /\ \E p \in RegularFiles(files) : MatchesTmp(p)
  /\ \E p \in DOMAIN files : Unrelated(p)

(***************************************************************************)
(* Reading a state that RegisterNewDump or BumpDumpTime has just left      *)
(***************************************************************************)

\* the path the last call built from its i-th argument and the config it read
LastPath(i) == GenerateDumpPath(last.args[i], last.config)

\* there was an entry at path before the last operation
Was(path) == last.exists /\ path \in DOMAIN last.files

\* there was a regular file at path before the last operation
WasRegular(path) == Was(path) /\ last.files[path].type = "regular"

\* the last operation has left the directory as it was
DirectoryUntouched == exists = last.exists /\ files = last.files

(***************************************************************************)
(* C11, as stated: RegisterNewDump(update_time) throws when there is an    *)
(* entry at dir/<timestamp>-v<current version>, and has then changed       *)
(* nothing on disk; in every other case it returns {update_time, that      *)
(* path, the current format version}.                                      *)
(***************************************************************************)
RegisterNewDumpThrowsOnlyIfExists ==
  last.op = "RegisterNewDump" =>
    IF Was(LastPath(1))
    THEN Threw(last.result) /\ DirectoryUntouched
    ELSE last.result = DumpFileStats(last.args[1], LastPath(1),
                                     last.config.dump_format_version)

(***************************************************************************)
(* C11, amended: RegisterNewDump(update_time) throws when there is an      *)
(* entry at dir/<timestamp>-v<current version>, and has then changed       *)
(* nothing on disk; in every other case it returns {update_time, that      *)
(* path, the current format version}, or throws because the look for the   *)
(* file or the creation of the dump directory failed in the filesystem.    *)
(***************************************************************************)
RegisterNewDumpThrowsIfExists ==
  last.op = "RegisterNewDump" =>
    IF Was(LastPath(1))
    THEN Threw(last.result) /\ DirectoryUntouched
    ELSE \/ last.result = DumpFileStats(last.args[1], LastPath(1),
                                        last.config.dump_format_version)
         \/ Threw(last.result) /\ last.result.what \in {"status", "CreateDirectories"}

\* a call for a dump that a caller has written, refused because of the file
RegisterNewDumpThrowsIfExistsWitness ==
  /\ last.op = "RegisterNewDump"
  /\ WasRegular(LastPath(1))
  /\ Threw(last.result) /\ last.result.what = "exists"
  /\ Len(issued) > 0

(***************************************************************************)
(* C12: a RegisterNewDump that returns has not created the dump file: the  *)
(* dump directory exists, its entries are those from before the call, and  *)
(* no GetLatestDump that follows returns the registered path.              *)
(***************************************************************************)
RegisterNewDumpCreatesNoFile ==
  (last.op = "RegisterNewDump" /\ ~Threw(last.result)) =>
    /\ exists
    /\ files = last.files
    /\ last.result.full_path \notin DOMAIN files
    /\ \A out \in GetLatestDumpConfig(config, clock, exists, files) :
         out.result.has_value => out.result.full_path # last.result.full_path

\* a registration that had to create the directory, and one next to a dump
\* that GetLatestDump finds
RegisterNewDumpCreatesNoFileWitness ==
  /\ last.op = "RegisterNewDump" /\ ~Threw(last.result)
  /\ \/ ~last.exists
     \/ \E out \in GetLatestDumpConfig(config, clock, exists, files) : out.result.has_value

(***************************************************************************)
(* C13, as stated: no two calls of RegisterNewDump that return have        *)
(* returned the same path: a second registration of an update_time under   *)
(* the same format version fails.                                          *)
(***************************************************************************)
RegisterNewDumpOncePerPair ==
  \A i \in DOMAIN issued : \A j \in DOMAIN issued :
    i # j => issued[i].full_path # issued[j].full_path

(***************************************************************************)
(* C14, as stated: BumpDumpTime(t, t') with t <= t' either returns true,   *)
(* and then the regular file at the path of t is now at the path of t',    *)
(* every other entry of the directory is as before and the directory has   *)
(* as many entries as before; or it returns false, and then the directory  *)
(* is as before.                                                           *)
(***************************************************************************)
BumpDumpTimeRenamesOneOrNothing ==
  last.op = "BumpDumpTime" =>
    IF last.result
    THEN /\ WasRegular(LastPath(1))
         /\ files = Rename(last.files, LastPath(1), LastPath(2))
         /\ \A p \in DOMAIN last.files \ {LastPath(1), LastPath(2)} : Untouched(p)
         /\ Cardinality(DOMAIN files) = Cardinality(DOMAIN last.files)
    ELSE DirectoryUntouched

(***************************************************************************)
(* C15: BumpDumpTime(old, new) returns false and leaves the directory as   *)
(* it was whenever there is no regular file at the path of old under the   *)
(* config the call read; it returns, never throws.                         *)
(***************************************************************************)
BumpDumpTimeFalseIfMissing ==
  (last.op = "BumpDumpTime" /\ ~WasRegular(LastPath(1))) =>
    last.result = FALSE /\ DirectoryUntouched

\* the dump of old is there, written under the other format version, and a
\* subdirectory has the name of a dump
BumpDumpTimeFalseIfMissingWitness ==
  /\ last.op = "BumpDumpTime" /\ ~WasRegular(LastPath(1))
  /\ \/ \E d \in Dumps(last.files) :
          /\ d.update_time = last.args[1]
          /\ d.format_version # last.config.dump_format_version
     \/ Was(LastPath(1))

(***************************************************************************)
(* C16: after a BumpDumpTime(t, t') with t < t' that returned true, the    *)
(* file at the path of t' holds what the file at the path of t held, there *)
(* is no entry at the path of t, and a GetLatestDump that follows and      *)
(* scans the whole directory returns a dump of update_time t' when t' is   *)
(* within max_dump_age and no dump of the current version is newer.        *)
(***************************************************************************)
BumpDumpTimeKeepsContent ==
  (last.op = "BumpDumpTime" /\ last.result /\ TimeLess(last.args[1], last.args[2])) =>
    /\ LastPath(2) \in DOMAIN files
    /\ files[LastPath(2)] = last.files[LastPath(1)]
    /\ LastPath(1) \notin DOMAIN files
    /\ (/\ ~(config.max_dump_age.has_value
               /\ TimeLess(last.args[2], MinAcceptableUpdateTime(config, clock)))
        /\ \A d \in Dumps(files) :
             d.format_version = config.dump_format_version
               => ~TimeLess(last.args[2], d.update_time))
       => \A out \in GetLatestDumpConfig(config, clock, exists, files) :
            ~out.error => out.result.has_value /\ out.result.update_time = last.args[2]

\* the dump of BaseTime(), too old for max_dump_age before the call, bumped
\* to a time that is within it
BumpDumpTimeKeepsContentWitness ==
  /\ last.op = "BumpDumpTime" /\ last.result /\ TimeLess(last.args[1], last.args[2])
  /\ config.max_dump_age.has_value
  /\ TimeLess(last.args[1], MinAcceptableUpdateTime(config, clock))
  /\ files[LastPath(2)].contents = Filename(LastPath(1))
  /\ \E out \in GetLatestDumpConfig(config, clock, exists, files) :
       ~out.error /\ out.result.full_path = LastPath(2)

(***************************************************************************)
(* C17: GetLatestDump and Cleanup return, they never throw: after a        *)
(* filesystem error during its scan GetLatestDump returns none or a dump   *)
(* of the directory that passes the version and age rule, the best of the  *)
(* entries it had seen; Cleanup has then removed nothing but tmp files and *)
(* dumps, and every other entry is in its place.                           *)
(***************************************************************************)
ErrorsAreSwallowed ==
  /\ last.op = "GetLatestDump" =>
       /\ ~Threw(last.result)
       /\ last.error => (last.result = Nullopt \/ last.result \in Candidates)
  /\ last.op = "Cleanup" =>
       /\ last.result = Nullopt
       /\ last.error =>
            \A p \in DOMAIN last.files :
              \/ Untouched(p)
              \/ /\ last.files[p].type = "regular"
                 /\ MatchesTmp(p) \/ ParseDumpName(p).has_value

\* a scan that an error ended after a candidate and before a newer one, and
\* a cleanup that an error ended before a tmp file was removed
ErrorsAreSwallowedWitness ==
  \/ /\ last.op = "GetLatestDump" /\ last.error
     /\ last.result.has_value
     /\ \E d \in Candidates : TimeLess(last.result.update_time, d.update_time)
  \/ /\ last.op = "Cleanup" /\ last.error
     /\ files # last.files
     /\ \E p \in DOMAIN files : files[p].type = "regular" /\ MatchesTmp(p)


(***************************************************************************)
(* C18: every RegisterNewDump, GetLatestDump, BumpDumpTime and Cleanup     *)
(* works with the config that the last SetConfig to have returned before   *)
(* it started has set (the config of the constructor when there was        *)
(* none): the operation reads config_ once, when it starts, a              *)
(* GetLatestDump under way keeps what it has read whatever SetConfig does  *)
(* meanwhile, and SetConfig(c) leaves c in config_.                        *)
(***************************************************************************)
SetConfigLinearizable ==
  [][/\ (inflight.op = "none" /\ inflight'.op # "none") => inflight'.config = config
     /\ (inflight.op # "none" /\ inflight'.op # "none")
          => inflight'.config = inflight.config
     /\ (inflight.op # "none" /\ inflight'.op = "none")
          => last'.op = "GetLatestDump" /\ last'.config = inflight.config
     /\ last'.op \in {"RegisterNewDump", "BumpDumpTime", "Cleanup"}
          => last'.config = config
     /\ last'.op = "SetConfig" => config' = last'.config]_vars

\* a GetLatestDump is under way with the config it has read, SetConfig has
\* replaced that config, and the BumpDumpTime that came next has used the
\* new one
SetConfigLinearizableWitness ==
  /\ inflight.op = "GetLatestDump"
  /\ inflight.config # config
  /\ last.op = "BumpDumpTime"
  /\ last.config = config

(***************************************************************************)
(* C19 as stated: a GetLatestDump that another caller's RegisterNewDump,   *)
(* file writes and BumpDumpTime interleave with does not throw, and        *)
(* returns none or a dump of the current version, within max_dump_age, at  *)
(* least as new as every such dump that was in the directory during the    *)
(* whole scan.                                                             *)
(***************************************************************************)
InterleavedScanReturnsNewest ==
  last.op = "GetLatestDump" =>
    /\ ~Threw(last.result)
    /\ last.result.has_value =>
         /\ Current(last.result)
         /\ ~TooOld(last.result)
         /\ Newest(last.result, Survivors)

(***************************************************************************)
(* C19, amended: a GetLatestDump that another caller's RegisterNewDump,    *)
(* file writes and BumpDumpTime interleave with does not throw, and        *)
(* returns none or a dump of the current version, within max_dump_age,     *)
(* that is, unless a filesystem error has ended the scan early, at least   *)
(* as new as every such dump that was in the directory during the whole    *)
(* scan.                                                                   *)
(***************************************************************************)
InterleavedScanReturnsNewestSeen ==
  last.op = "GetLatestDump" =>
    /\ ~Threw(last.result)
    /\ last.result.has_value =>
         /\ Current(last.result)
         /\ ~TooOld(last.result)
         /\ ~last.error => Newest(last.result, Survivors)

\* the scan has returned, without an error, a dump that a BumpDumpTime has
\* renamed while the scan was under way
InterleavedScanReturnsNewestSeenWitness ==
  /\ last.op = "GetLatestDump" /\ ~last.error
  /\ last.result.has_value
  /\ last.result.full_path \notin DOMAIN files
  /\ \E i \in DOMAIN issued : issued[i].full_path = last.result.full_path

(***************************************************************************)
(* C20: for every update_time and every format version the file name of    *)
(* the path GenerateDumpPath makes matches the pattern of finalized dumps  *)
(* and not that of tmp files, and ParseDumpName of the path returns that   *)
(* update_time and that version.                                           *)
(***************************************************************************)
RoundTrip ==
  last.op = "ParseDumpName" =>
    /\ RegexMatch(Filename(last.args[2]), GenerateFilenameRegex(kNormal))
    /\ ~RegexMatch(Filename(last.args[2]), GenerateFilenameRegex(kTmp))
    /\ last.result.has_value
    /\ last.result.update_time = last.args[1]
    /\ last.result.format_version = last.config.dump_format_version


(***************************************************************************)
(* Reading a state that a constructor of a cache config has just left      *)
(***************************************************************************)

\* the document the last constructor was given
LastDoc == last.args[1]

\* the dump section of that document
LastDump == As(LastDoc.dump, NoDump)

\* CacheConfigStatic has been called for a document that asks for type
StaticCalledFor(type) ==
  /\ last.op = "CacheConfigStatic"
  /\ ParseUpdateMode(LastDoc) = Optional(type)

(***************************************************************************)
(* C21: the construction of a CacheConfigStatic whose update types are     *)
(* FullAndIncremental throws unless update_interval and                    *)
(* full_update_interval are both greater than zero; a config that has been *)
(* constructed with these update types has both intervals non-zero.        *)
(***************************************************************************)
FullAndIncrementalNeedsBothIntervals ==
  StaticCalledFor(kFullAndIncremental) =>
    /\ ~(As(LastDoc.update_interval, 0) > 0 /\ As(LastDoc.full_update_interval, 0) > 0)
         => Threw(last.result)
    /\ ~Threw(last.result) =>
         /\ last.result.allowed_update_types = kFullAndIncremental
         /\ last.result.update_interval # 0
         /\ last.result.full_update_interval # 0

\* update-types: full-and-incremental with full-update-interval: 0
FullAndIncrementalNeedsBothIntervalsWitness ==
  /\ StaticCalledFor(kFullAndIncremental)
  /\ LastDoc.update_interval = Optional(1000)
  /\ LastDoc.full_update_interval = Optional(0)
  /\ Threw(last.result)

(***************************************************************************)
(* C22: the construction of a CacheConfigStatic whose update types are     *)
(* OnlyFull or OnlyIncremental throws when full_update_interval is set     *)
(* (not zero) or update_interval is zero; in a config that has been        *)
(* constructed full_update_interval equals update_interval and both are    *)
(* greater than zero.                                                      *)
(***************************************************************************)
OnlyOneTypeCopiesInterval ==
  (StaticCalledFor(kOnlyFull) \/ StaticCalledFor(kOnlyIncremental)) =>
    /\ (As(LastDoc.full_update_interval, 0) # 0 \/ As(LastDoc.update_interval, 0) = 0)
         => Threw(last.result)
    /\ ~Threw(last.result) =>
         /\ last.result.full_update_interval = last.result.update_interval
         /\ last.result.update_interval > 0
         /\ last.result.update_interval = LastDoc.update_interval.value

\* an only-incremental config constructed from update-interval alone
OnlyOneTypeCopiesIntervalWitness ==
  /\ StaticCalledFor(kOnlyIncremental)
  /\ ~Threw(last.result)
  /\ ~LastDoc.full_update_interval.has_value
  /\ last.result.full_update_interval = 5000

(***************************************************************************)
(* C23: with a dump section and a dump config, the construction of a       *)
(* CacheConfigStatic whose first-update-mode is not required throws unless *)
(* max_dump_age_set of the dump config is true; with first-update-mode     *)
(* required the outcome is the same whether it is set or not.              *)
(***************************************************************************)
MaxDumpAgeNeededUnlessRequired ==
  (last.op = "CacheConfigStatic" /\ LastDoc.dump.has_value /\ last.args[2].has_value) =>
    /\ (LastDump.first_update_mode # Optional("required")
          /\ ~last.args[2].value.max_dump_age_set)
         => Threw(last.result)
    /\ LastDump.first_update_mode = Optional("required")
         => \A dump_config \in DumpConfigs :
              dump_config.has_value
                => last.result \in CacheConfigStatic(LastDoc, dump_config)

\* first-update-mode: best-effort, every other demand met, max-dump-age not
\* set
MaxDumpAgeNeededUnlessRequiredWitness ==
  /\ last.op = "CacheConfigStatic"
  /\ LastDoc.dump.has_value /\ last.args[2].has_value
  /\ LastDump.first_update_mode = Optional("best-effort")
  /\ ~last.args[2].value.max_dump_age_set
  /\ Threw(last.result)
  /\ \E out \in CacheConfigStatic(LastDoc, Optional([max_dump_age_set |-> TRUE])) :
       ~Threw(out)

JitterAtMostInterval ==
  (last.op \in {"CacheConfig", "CacheConfigStatic", "CacheConfigJson"}
     /\ ~Threw(last.result))
    => last.result.update_jitter <= last.result.update_interval

(***************************************************************************)
(* C26: the construction of a CacheConfig from a json value throws when    *)
(* update_interval and full_update_interval are both zero; otherwise an    *)
(* interval of zero takes the value of the other, both intervals of the    *)
(* config are non-zero, and update_jitter is the jitter given unless that  *)
(* is greater than the update_interval of the config, when it is a tenth   *)
(* of it.                                                                  *)
(***************************************************************************)
DynamicIntervalsNormalized ==
  (/\ last.op = "CacheConfigJson"
   /\ LastDoc.update_interval_ms.has_value
   /\ LastDoc.update_jitter_ms.has_value
   /\ LastDoc.full_update_interval_ms.has_value) =>
    IF LastDoc.update_interval_ms.value = 0 /\ LastDoc.full_update_interval_ms.value = 0
    THEN Threw(last.result)
    ELSE /\ ~Threw(last.result)
         /\ last.result.update_interval =
              (IF LastDoc.update_interval_ms.value = 0
               THEN LastDoc.full_update_interval_ms.value
               ELSE LastDoc.update_interval_ms.value)
         /\ last.result.full_update_interval =
              (IF LastDoc.full_update_interval_ms.value = 0
               THEN LastDoc.update_interval_ms.value
               ELSE LastDoc.full_update_interval_ms.value)
         /\ last.result.update_interval # 0
         /\ last.result.full_update_interval # 0
         /\ last.result.update_jitter =
              (IF LastDoc.update_jitter_ms.value > last.result.update_interval
               THEN last.result.update_interval \div 10
               ELSE LastDoc.update_jitter_ms.value)

\* update-interval-ms 0 and full-update-interval-ms 5000: the jitter of 2000
\* is kept, being under the update_interval of 5000 that results
DynamicIntervalsNormalizedWitness ==
  /\ last.op = "CacheConfigJson"
  /\ LastDoc.update_interval_ms = Optional(0)
  /\ LastDoc.full_update_interval_ms = Optional(5000)
  /\ LastDoc.update_jitter_ms = Optional(2000)
  /\ ~Threw(last.result)
  /\ last.result.update_interval = 5000
  /\ last.result.update_jitter = 2000

(***************************************************************************)
(* C27: MergeWith(other) returns a config whose update_interval,           *)
(* update_jitter, full_update_interval and cleanup_interval are those of   *)
(* other and whose other fields are those of the config it is called on.   *)
(***************************************************************************)
MergeWithTakesIntervals ==
  last.op = "MergeWith" =>
    /\ \A f \in {"update_interval", "update_jitter", "full_update_interval",
                 "cleanup_interval"} :
         last.result[f] = last.args[2][f]
    /\ \A f \in {"allowed_update_types", "allow_first_update_failure",
                 "force_periodic_update", "config_updates_enabled",
                 "first_update_mode", "force_full_second_update"} :
         last.result[f] = last.args[1][f]
    /\ DOMAIN last.result = DOMAIN last.args[1]

\* a merge that changes every interval of a config with policy fields that
\* are not the defaults
MergeWithTakesIntervalsWitness ==
  /\ last.op = "MergeWith"
  /\ \A f \in {"update_interval", "update_jitter", "full_update_interval",
               "cleanup_interval"} :
       last.args[1][f] # last.args[2][f]
  /\ last.args[1].allowed_update_types = kOnlyIncremental
  /\ last.args[1].allow_first_update_failure
  /\ last.args[1].first_update_mode = kBestEffort
  /\ last.args[1].force_full_second_update


(***************************************************************************)
(* C28: at most one on_update call of the cache is in flight at any time:  *)
(* the controller starts an update, on the deadline of the scheduler or on *)
(* an external trigger, only when no update is under way.                  *)
(***************************************************************************)
OneOnUpdateInFlight == controller.on_update <= 1

\* an update is in flight after an earlier one has returned and its dump
\* has been bumped
OneOnUpdateInFlightWitness ==
  /\ controller.state = "Updating"
  /\ controller.on_update = 1
  /\ controller.updated
  /\ last.op = "BumpDumpTime"


(***************************************************************************)
(* C29: every operation of the DumpManager works with the one config it    *)
(* has read when it started, whatever SetConfig does meanwhile: the        *)
(* DumpFileStats that RegisterNewDump returns has the format_version that  *)
(* its full_path spells, and the update_time asked for; BumpDumpTime       *)
(* renames the file at the path of the old time to the path of the new     *)
(* time, both made with the config read; what Cleanup and GetLatestDump    *)
(* do is what that one config makes them do for the whole directory.       *)
(***************************************************************************)
SnapshotKept ==
  [][/\ (inflight.op = "none" /\ inflight'.op # "none") => inflight'.config = config
     /\ (inflight.op # "none" /\ inflight'.op # "none")
          => inflight'.config = inflight.config
     /\ (inflight.op = "RegisterNewDump" /\ inflight'.op = "none"
           /\ ~Threw(last'.result))
          => /\ ParseDumpName(last'.result.full_path).has_value
             /\ ParseDumpName(last'.result.full_path).format_version
                  = last'.result.format_version
             /\ ParseDumpName(last'.result.full_path).update_time = last'.args[1]
             /\ last'.result.format_version = inflight.config.dump_format_version
     /\ (inflight.op = "BumpDumpTime" /\ inflight'.op = "none")
          => IF last'.result
             THEN files' = Rename(files,
                                  GenerateDumpPath(last'.args[1], inflight.config),
                                  GenerateDumpPath(last'.args[2], inflight.config))
             ELSE files' = files
     /\ (inflight.op = "Cleanup" /\ inflight'.op = "none")
          => \E out \in DoCleanup(inflight.config, clock, exists, files) :
               out.files = files' /\ out.error = last'.error
     /\ (inflight.op = "GetLatestDump" /\ inflight'.op = "none")
          => /\ last'.config = inflight.config
             /\ last'.result.has_value =>
                  /\ last'.result.format_version = inflight.config.dump_format_version
                  /\ ~(inflight.config.max_dump_age.has_value
                         /\ TimeLess(last'.result.update_time,
                                     MinAcceptableUpdateTime(inflight.config, clock)))
             /\ ~last'.error =>
                  \E out \in GetLatestDumpConfig(inflight.config, clock, exists, files) :
                    out.result = last'.result /\ ~out.error]_vars

\* RegisterNewDump has returned a DumpFileStats of the format version it had
\* read, after SetConfig had set another
SnapshotKeptWitness ==
  /\ last.op = "RegisterNewDump"
  /\ ~Threw(last.result)
  /\ last.config.dump_format_version # config.dump_format_version
  /\ last.result.format_version = last.config.dump_format_version


(***************************************************************************)
(* C30: wherever a Cleanup ends, at its end or where a filesystem error    *)
(* cuts it, the files it has removed are among those that a Cleanup run    *)
(* to its end on the same directory, config and clock removes: files that  *)
(* are no dumps stay as they were, and so does a newest dump of the        *)
(* current version that is not older than max_dump_age.                    *)
(***************************************************************************)
PartialCleanupRemovesSubset ==
  last.op = "Cleanup" =>
    /\ \E out \in DoCleanup(last.config, last.clock, last.exists, last.files) :
         /\ ~out.error
         /\ DOMAIN out.files \subseteq DOMAIN files
    /\ DOMAIN files \subseteq DOMAIN last.files
    /\ \A p \in DOMAIN files : files[p] = last.files[p]
    /\ \A p \in DOMAIN last.files : Unrelated(p) => Untouched(p)
    /\ Survivors # {} =>
         \E d \in Survivors : Newest(d, Survivors) /\ Untouched(d.full_path)

\* a filesystem error has ended a Cleanup that had removed a file and had
\* another left to remove, in a directory with a dump to keep
PartialCleanupRemovesSubsetWitness ==
  /\ last.op = "Cleanup"
  /\ last.error
  /\ DOMAIN files # DOMAIN last.files
  /\ Survivors # {}
  /\ \E out \in DoCleanup(last.config, last.clock, last.exists, last.files) :
       /\ ~out.error
       /\ DOMAIN out.files \subseteq DOMAIN files
       /\ DOMAIN out.files # DOMAIN files


(***************************************************************************)
(* C35: a CacheConfigStatic that the constructor has accepted keeps its    *)
(* interval invariants through every MergeWith with a dynamic CacheConfig  *)
(* that has been constructed: update_interval > 0, full_update_interval    *)
(* > 0, and full_update_interval = update_interval when                    *)
(* allowed_update_types is kOnlyFull or kOnlyIncremental.                  *)
(***************************************************************************)
MergedIntervalsValid ==
  last.op = "MergeWith" =>
    /\ last.result.update_interval > 0
    /\ last.result.full_update_interval > 0
    /\ last.result.allowed_update_types \in {kOnlyFull, kOnlyIncremental}
         => last.result.full_update_interval = last.result.update_interval


(***************************************************************************)
(* C31: a dump that has been registered and written to its ".tmp"          *)
(* companion is lost before the rename to its path only when Cleanup has   *)
(* run between the registration and the rename: when no Cleanup has, the   *)
(* companion is in the directory until the rename, the rename succeeds     *)
(* and the dump is at the path registered with the content written; a      *)
(* Cleanup that runs in between can remove the companion, and then the     *)
(* dump is never at its path.                                              *)
(***************************************************************************)
CleanupAloneLosesTmp ==
  /\ (inflight.op = "Dump" /\ inflight.pc = "written" /\ ~inflight.cleanup)
       => /\ TmpPath(inflight.stats.full_path) \in DOMAIN files
          /\ files[TmpPath(inflight.stats.full_path)]
               = [type |-> "regular", contents |-> Filename(inflight.stats.full_path)]
  /\ (last.op = "Rename" /\ ~last.args[2])
       => /\ ~Threw(last.result)
          /\ last.args[1].full_path \in DOMAIN files
          /\ files[last.args[1].full_path]
               = [type |-> "regular", contents |-> Filename(last.args[1].full_path)]
          /\ TmpPath(last.args[1].full_path) \notin DOMAIN files
  /\ (last.op = "Rename" /\ Threw(last.result))
       => /\ last.args[2]
          /\ TmpPath(last.args[1].full_path) \notin DOMAIN last.files

\* Cleanup has run between the write and the rename of a dump and has
\* removed the ".tmp" companion: the rename has failed and there is no file
\* at the path registered
CleanupAloneLosesTmpWitness ==
  /\ last.op = "Rename"
  /\ Threw(last.result)
  /\ last.args[2]
  /\ last.args[1].full_path \notin DOMAIN files
  /\ TmpPath(last.args[1].full_path) \notin DOMAIN files


(***************************************************************************)
(* C32: Cleanup does not remove the dump that GetLatestDump returns.       *)
(***************************************************************************)

\* what GetLatestDump(const Config&) may return for the config and clock of
\* the last operation from a scan of the whole of dir
LatestDumps(dir_exists, dir) ==
  {out.result : out \in {o \in GetLatestDumpConfig(last.config, last.clock,
                                                    dir_exists, dir) : ~o.error}}

\* C32 as stated: for every directory, config with max_dump_count >= 1 and
\* clock, GetLatestDump called right after Cleanup returns the DumpFileStats,
\* or the none, that GetLatestDump called right before it returns.
CleanupKeepsLatestDump ==
  (last.op = "Cleanup" /\ last.config.max_dump_count >= 1)
    => LatestDumps(exists, files) = LatestDumps(last.exists, last.files)

\* C32 amended: GetLatestDump called right after Cleanup returns a
\* DumpFileStats that GetLatestDump called right before it may return, of
\* the same update_time and format_version as any it may return, or none as
\* before; it is the same DumpFileStats when one dump alone has the newest
\* update_time among those GetLatestDump takes.
CleanupKeepsLatestDumpTime ==
  (last.op = "Cleanup" /\ last.config.max_dump_count >= 1)
    => LET Kept(before, after) ==
             /\ after # {}
             /\ after \subseteq before
             /\ \A b \in before : \A a \in after :
                  /\ a.has_value = b.has_value
                  /\ a.has_value =>
                       /\ a.update_time = b.update_time
                       /\ a.format_version = b.format_version
             /\ Cardinality(before) = 1 => after = before
       IN  Kept(LatestDumps(last.exists, last.files), LatestDumps(exists, files))

\* Cleanup has removed a dump that GetLatestDump takes, an older one, and
\* GetLatestDump returns a dump before and after
CleanupKeepsLatestDumpTimeWitness ==
  /\ last.op = "Cleanup"
  /\ last.config.max_dump_count >= 1
  /\ \E p \in DOMAIN last.files \ DOMAIN files :
       LatestCandidate(p, last.files[p], last.config,
                       MinAcceptableUpdateTime(last.config, last.clock)).has_value
  /\ \A r \in LatestDumps(exists, files) : r.has_value


(***************************************************************************)
(* C33: Cleanup called twice, the second time right after the first with   *)
(* the same config and the same reading of the clock, leaves the           *)
(* directory as Cleanup called once leaves it.                             *)
(***************************************************************************)

\* C33 as stated: the second Cleanup removes nothing
CleanupIdempotent ==
  [][(last.op = "Cleanup" /\ last'.op = "Cleanup"
        /\ config' = config /\ clock' = clock)
       => files' = files]_vars

\* C33 amended: the second Cleanup removes nothing when no filesystem error
\* has ended the first
CleanupIdempotentAfterWholeCleanup ==
  [][(last.op = "Cleanup" /\ ~last.error /\ last'.op = "Cleanup"
        /\ config' = config /\ clock' = clock)
       => files' = files]_vars

\* a Cleanup that no error has ended has removed files and left dumps of
\* the current version, as many as max_dump_count allows
CleanupIdempotentAfterWholeCleanupWitness ==
  /\ last.op = "Cleanup"
  /\ ~last.error
  /\ DOMAIN files # DOMAIN last.files
  /\ Cardinality(Remaining) = last.config.max_dump_count


(***************************************************************************)
(* C34: two calls of BumpDumpTime with the same old_update_time that run   *)
(* at once on a dump file that exists.                                     *)
(***************************************************************************)

\* the two calls have returned, they were made for the same old_update_time
\* and the dump of that time was a regular file
BumpedTwice ==
  /\ inflight.op = "BumpDumpTime"
  /\ \A i \in 1..2 : inflight.tasks[i].pc = "returned"
  /\ inflight.tasks[1].old_update_time = inflight.tasks[2].old_update_time
  /\ GenerateDumpPath(inflight.tasks[1].old_update_time, config)
       \in RegularFiles(inflight.before)

\* the files that hold what the dump held
HoldingTheDump ==
  {p \in DOMAIN files :
     files[p] = inflight.before[GenerateDumpPath(inflight.tasks[1].old_update_time,
                                                 config)]}

\* C34 as stated: at most one of the two calls returns true, the other
\* returns false, and exactly one file holds the content of the dump
\* afterwards.
ConcurrentBumpOneWins ==
  BumpedTwice
    => /\ ~(inflight.tasks[1].result /\ inflight.tasks[2].result)
       /\ Cardinality(HoldingTheDump) = 1

\* C34 amended: at most one of the calls whose new_update_time differs from
\* old_update_time returns true, and exactly one file holds the content of
\* the dump afterwards; a call with new_update_time = old_update_time
\* renames the file onto itself and may return true as well.
ConcurrentBumpOneMoves ==
  BumpedTwice
    => /\ (inflight.tasks[1].result /\ inflight.tasks[2].result)
            => \E i \in 1..2 : inflight.tasks[i].new_update_time
                                 = inflight.tasks[i].old_update_time
       /\ Cardinality(HoldingTheDump) = 1
       /\ \A i \in 1..2 :
            (inflight.tasks[i].result
               /\ inflight.tasks[i].new_update_time # inflight.tasks[i].old_update_time)
              => HoldingTheDump
                   = {GenerateDumpPath(inflight.tasks[i].new_update_time, config)}

\* both calls have found the dump, for different new times later than the
\* old one; the first has returned true and the second false
ConcurrentBumpOneMovesWitness ==
  /\ BumpedTwice
  /\ inflight.tasks[1].result /\ ~inflight.tasks[2].result
  /\ inflight.tasks[1].new_update_time # inflight.tasks[2].new_update_time
  /\ \A i \in 1..2 : inflight.tasks[i].new_update_time # inflight.tasks[i].old_update_time
  /\ last.op = "BumpDumpTime"
  /\ last.args[2] = inflight.tasks[2].new_update_time
  /\ GenerateDumpPath(inflight.tasks[2].old_update_time, config)
       \notin DOMAIN last.files


=============================================================================
